---------------------------- MODULE Spec2Model ----------------------------
(***************************************************************************)
(* Model of mcp_simple_db_access/server.py: the ten MCP tool handlers, the *)
(* DatabaseManager they share and the OllamaLlamaIndexClient.              *)
(*                                                                         *)
(* Texts are TLA+ strings, handled character by character with Head, Tail, *)
(* SubSeq, Len and \o, so that strip / upper / startswith / slicing are    *)
(* computed as Python computes them.  A TLA+ string literal cannot hold a  *)
(* backquote (U+0060): Tick stands for it.                                 *)
(***************************************************************************)
EXTENDS Integers, Sequences, FiniteSets, TLC

(***************************************************************************)
(* Python str primitives                                                   *)
(***************************************************************************)
Char(s, i) == SubSeq(s, i, i)

Tick == "ˋ"

IsSpace(c) == c \in {" ", "\t", "\n", "\r", "\f"}

\* positions of s holding a character that is not whitespace
Inked(s) == {i \in 1..Len(s) : ~IsSpace(Char(s, i))}

Min(S) == CHOOSE m \in S : \A o \in S : m <= o
Max(S) == CHOOSE m \in S : \A o \in S : o <= m

\* str.strip(): whitespace removed from both ends
strip(s) ==
    IF Inked(s) = {} THEN "" ELSE SubSeq(s, Min(Inked(s)), Max(Inked(s)))

LowerLetters == "abcdefghijklmnopqrstuvwxyz"
UpperLetters == "ABCDEFGHIJKLMNOPQRSTUVWXYZ"
Digits == "0123456789"

IndexIn(alphabet, c) ==
    IF \E i \in 1..Len(alphabet) : Char(alphabet, i) = c
    THEN CHOOSE i \in 1..Len(alphabet) : Char(alphabet, i) = c
    ELSE 0

\* str.upper(), halving the text so that the evaluation stays shallow
RECURSIVE upper(_)
upper(s) ==
    IF Len(s) <= 1
    THEN (IF IndexIn(LowerLetters, s) > 0
          THEN Char(UpperLetters, IndexIn(LowerLetters, s))
          ELSE s)
    ELSE upper(SubSeq(s, 1, Len(s) \div 2))
            \o upper(SubSeq(s, Len(s) \div 2 + 1, Len(s)))

startswith(s, prefix) ==
    Len(s) >= Len(prefix) /\ SubSeq(s, 1, Len(prefix)) = prefix

\* s[a:b] with Python's clamping; a >= 0, b counted from the end when negative
Slice(s, a, b) ==
    LET hi == IF b < 0 THEN Len(s) + b ELSE IF b > Len(s) THEN Len(s) ELSE b
        lo == IF a > Len(s) THEN Len(s) ELSE a
    IN  IF hi <= lo THEN "" ELSE SubSeq(s, lo + 1, hi)

RECURSIVE NatToText(_)
NatToText(n) ==
    IF n < 10 THEN Char(Digits, n + 1)
    ELSE NatToText(n \div 10) \o Char(Digits, (n % 10) + 1)

\* str(int)
IntToText(n) == IF n < 0 THEN "-" \o NatToText(0 - n) ELSE NatToText(n)

IsDigits(s) == s # "" /\ \A i \in 1..Len(s) : IndexIn(Digits, Char(s, i)) > 0

RECURSIVE TextToNat(_)
TextToNat(s) ==
    IF s = "" THEN 0
    ELSE 10 * TextToNat(SubSeq(s, 1, Len(s) - 1))
            + (IndexIn(Digits, Char(s, Len(s))) - 1)

(***************************************************************************)
(* Values: what a SQLite column holds and what json.dumps renders          *)
(***************************************************************************)
IntV(n)  == [k |-> "int",  i |-> n, s |-> ""]
TextV(t) == [k |-> "text", i |-> 0, s |-> t]
RealV(t) == [k |-> "real", i |-> 0, s |-> t]
NullV    == [k |-> "null", i |-> 0, s |-> ""]
ListV(items)      == [k |-> "list", items |-> items]
DictV(keys, vals) == [k |-> "dict", keys |-> keys, vals |-> vals]

\* json.dumps escapes of a str (ensure_ascii leaves printable ASCII alone)
RECURSIVE JsonEscape(_)
JsonEscape(s) ==
    IF Len(s) <= 1
    THEN CASE s = "\"" -> "\\\""
           [] s = "\\" -> "\\\\"
           [] s = "\n" -> "\\n"
           [] s = "\r" -> "\\r"
           [] s = "\t" -> "\\t"
           [] s = "\f" -> "\\f"
           [] OTHER    -> s
    ELSE JsonEscape(SubSeq(s, 1, Len(s) \div 2))
            \o JsonEscape(SubSeq(s, Len(s) \div 2 + 1, Len(s)))

JsonStr(s) == "\"" \o JsonEscape(s) \o "\""

RECURSIVE Pad(_)
Pad(n) == IF n = 0 THEN "" ELSE " " \o Pad(n - 1)

JSON_INDENT == 2

RECURSIVE dumps(_, _)
RECURSIVE dumpsItems(_, _, _)
RECURSIVE dumpsPairs(_, _, _, _)

\* json.dumps(v, indent=2) of a value nested `level` containers deep
dumps(v, level) ==
    CASE v.k = "int"  -> IntToText(v.i)
      [] v.k = "real" -> v.s
      [] v.k = "text" -> JsonStr(v.s)
      [] v.k = "null" -> "null"
      [] v.k = "list" ->
            IF v.items = <<>> THEN "[]"
            ELSE "[\n" \o dumpsItems(v.items, 1, level + 1)
                       \o "\n" \o Pad(JSON_INDENT * level) \o "]"
      [] v.k = "dict" ->
            IF v.keys = <<>> THEN "{}"
            ELSE "{\n" \o dumpsPairs(v.keys, v.vals, 1, level + 1)
                       \o "\n" \o Pad(JSON_INDENT * level) \o "}"

dumpsItems(items, i, level) ==
    Pad(JSON_INDENT * level) \o dumps(items[i], level)
      \o (IF i = Len(items) THEN ""
          ELSE ",\n" \o dumpsItems(items, i + 1, level))

dumpsPairs(keys, vals, i, level) ==
    Pad(JSON_INDENT * level) \o JsonStr(keys[i]) \o ": " \o dumps(vals[i], level)
      \o (IF i = Len(keys) THEN ""
          ELSE ",\n" \o dumpsPairs(keys, vals, i + 1, level))

json_dumps(v) == dumps(v, 0)

(***************************************************************************)
(* SQLite as reached through aiosqlite / Python's sqlite3 module: the      *)
(* statements the server's own queries and the modelled tool arguments     *)
(* use.  Grammar covered:                                                  *)
(*   SELECT ( star | COUNT-star [AS a] | <int> | <column> )                *)
(*          [FROM t [WHERE c (=|>|<) lit] [LIMIT n]] [UNION SELECT ...]    *)
(*   PRAGMA table_info(t)                                                  *)
(*   INSERT [OR IGNORE] INTO t (c, ...) VALUES (?, ...)                    *)
(*   CREATE TABLE [IF NOT EXISTS] t (column definitions)                   *)
(*   DROP TABLE t,  DELETE FROM t,  UPDATE t SET c = lit                   *)
(* Anything else is answered with a syntax error; SQL comments are not     *)
(* tokenised.                                                              *)
(***************************************************************************)
IsWordChar(c) == IndexIn(LowerLetters \o UpperLetters \o Digits \o "_", c) > 0

\* the tokens of s from position i on: words, quoted runs, single characters
RECURSIVE Tokens(_, _)
Tokens(s, i) ==
    LET ink == {j \in i..Len(s) : ~IsSpace(Char(s, j))} IN
    IF ink = {} THEN <<>>
    ELSE LET b == Min(ink)
             c == Char(s, b)
             \* the last position of the word that starts at b
             wordEnd == Min({j \in b..Len(s) : j = Len(s) \/ ~IsWordChar(Char(s, j + 1))})
             \* the quote that closes the one at b, Len(s) when none does
             quoteEnd ==
                 IF \E j \in (b + 1)..Len(s) : Char(s, j) = c
                 THEN Min({j \in (b + 1)..Len(s) : Char(s, j) = c})
                 ELSE Len(s)
             e == IF IsWordChar(c) THEN wordEnd
                  ELSE IF c \in {"'", "\""} THEN quoteEnd
                  ELSE b
         IN  <<[t |-> SubSeq(s, b, e), at |-> b, end |-> e]>> \o Tokens(s, e + 1)

KW(toks, i) == IF i >= 1 /\ i <= Len(toks) THEN upper(toks[i].t) ELSE ""

IsQuoted(t, q) == Len(t) >= 2 /\ Head(t) = q /\ Char(t, Len(t)) = q

\* the name an identifier token denotes
Ident(t) == IF IsQuoted(t, "\"") THEN SubSeq(t, 2, Len(t) - 1) ELSE t

IsName(t) == IsQuoted(t, "\"") \/ (t # "" /\ IsWordChar(Head(t)) /\ ~IsDigits(t))

\* the value a literal token denotes
Literal(t) ==
    IF IsDigits(t) THEN IntV(TextToNat(t))
    ELSE IF IsQuoted(t, "'") THEN TextV(SubSeq(t, 2, Len(t) - 1))
    ELSE NullV

IsLiteral(t) == IsDigits(t) \/ IsQuoted(t, "'")


SqlOk(db2, cols, rows, dml) ==
    [ok |-> TRUE, err |-> "", cols |-> cols, rows |-> rows, db |-> db2,
     dml |-> dml]

SqlErr(db, msg) ==
    [ok |-> FALSE, err |-> msg, cols |-> <<>>, rows |-> <<>>, db |-> db,
     dml |-> FALSE]

SyntaxError(db, toks, i) ==
    IF i >= 1 /\ i <= Len(toks)
    THEN SqlErr(db, "near \"" \o toks[i].t \o "\": syntax error")
    ELSE SqlErr(db, "incomplete input")

\* index in sqlite_master of the table called name (names fold case), or 0
TableIdx(db, name) ==
    IF \E i \in 1..Len(db.master) :
          db.master[i].type = "table" /\ upper(db.master[i].name) = upper(name)
    THEN CHOOSE i \in 1..Len(db.master) :
          db.master[i].type = "table" /\ upper(db.master[i].name) = upper(name)
    ELSE 0

ColIdx(cols, name) ==
    IF \E i \in 1..Len(cols) : upper(cols[i]) = upper(name)
    THEN CHOOSE i \in 1..Len(cols) :
            /\ upper(cols[i]) = upper(name)
            /\ \A j \in 1..(i - 1) : upper(cols[j]) # upper(name)
    ELSE 0

ColNames(entry) == [i \in 1..Len(entry.cols) |-> entry.cols[i].name]

MasterRows(db) ==
    [i \in 1..Len(db.master) |->
        <<TextV(db.master[i].type), TextV(db.master[i].name),
          TextV(db.master[i].tbl_name), IntV(db.master[i].rootpage),
          db.master[i].sql>>]

IsMasterName(name) == upper(name) \in {"SQLITE_MASTER", "SQLITE_SCHEMA"}

\* ordering of values and rows (UNION sorts and removes duplicates)
RECURSIVE TextLess(_, _)
TextLess(a, b) ==
    IF b = "" THEN FALSE
    ELSE IF a = "" THEN TRUE
    ELSE IF Head(a) = Head(b) THEN TextLess(Tail(a), Tail(b))
    ELSE LET ascii == "\t\n\f\r !\"#$%&'()*+,-./0123456789:;<=>?@" \o UpperLetters
                        \o "[\\]^_" \o Tick \o LowerLetters \o "{|}~"
         IN  IndexIn(ascii, Head(a)) < IndexIn(ascii, Head(b))

ValueLess(a, b) ==
    LET rank(v) == CASE v.k = "null" -> 0 [] v.k \in {"int", "real"} -> 1 [] OTHER -> 2
    IN  IF rank(a) # rank(b) THEN rank(a) < rank(b)
        ELSE IF a.k = "int" /\ b.k = "int" THEN a.i < b.i
        ELSE TextLess(a.s, b.s)

RECURSIVE RowLess(_, _)
RowLess(a, b) ==
    IF a = <<>> \/ b = <<>> THEN FALSE
    ELSE IF Head(a) = Head(b) THEN RowLess(Tail(a), Tail(b))
    ELSE ValueLess(Head(a), Head(b))

RECURSIVE SortRows(_)
SortRows(S) ==
    IF S = {} THEN <<>>
    ELSE LET m == CHOOSE r \in S : \A o \in S \ {r} : RowLess(r, o)
         IN  <<m>> \o SortRows(S \ {m})

SeqRange(q) == {q[i] : i \in 1..Len(q)}

RECURSIVE SelectSeq2(_, _, _)
\* the rows of q whose column c satisfies op against v
SelectSeq2(q, c, t) ==
    IF q = <<>> THEN <<>>
    ELSE (IF (t.op = "=" /\ Head(q)[c] = t.v)
             \/ (t.op = ">" /\ Head(q)[c].k = t.v.k /\ ValueLess(t.v, Head(q)[c]))
             \/ (t.op = "<" /\ Head(q)[c].k = t.v.k /\ ValueLess(Head(q)[c], t.v))
          THEN <<Head(q)>> ELSE <<>>) \o SelectSeq2(Tail(q), c, t)

\* first index in a..Len(toks) holding keyword kw, else Len(toks) + 1
RECURSIVE FindKW(_, _, _)
FindKW(toks, a, kw) ==
    IF a > Len(toks) THEN Len(toks) + 1
    ELSE IF KW(toks, a) = kw THEN a ELSE FindKW(toks, a + 1, kw)

\* SELECT
ExecSelect(db, toks) ==
    LET
        \* the WHERE clause expected at toks[q1] and the LIMIT clause at toks[q2]
        HasWhere(q1, stop) == q1 < stop /\ KW(toks, q1) = "WHERE"

        WhereOk(q1, stop) ==
            /\ q1 + 3 < stop
            /\ IsName(toks[q1 + 1].t)
            /\ toks[q1 + 2].t \in {"=", ">", "<"}
            /\ IsLiteral(toks[q1 + 3].t)

        HasLimit(q2, stop) == q2 < stop /\ KW(toks, q2) = "LIMIT"

        LimitOk(q2, stop) == q2 + 1 < stop /\ IsDigits(toks[q2 + 1].t)

        \* the result of one SELECT core, its clauses located and its source read:
        \* proj the result columns, rowsW the source rows that pass WHERE, wcol and
        \* pcol the source columns named by WHERE and by the projection (0 if none)
        SelectProject(p, stop, f0, tname, q1, q2, ti, srcCols, proj, wcol, rowsW, pcol) ==
            LET hasF  == f0 < stop
                hasW  == HasWhere(q1, stop)
                hasL  == HasLimit(q2, stop)
                lOk   == LimitOk(q2, stop)
                isStar  == Len(proj) = 1 /\ proj[1].t = "*"
                isCount == Len(proj) \in {4, 6} /\ KW(proj, 1) = "COUNT" /\ proj[2].t = "("
                             /\ proj[3].t = "*" /\ proj[4].t = ")"
                             /\ (Len(proj) = 6 => KW(proj, 5) = "AS" /\ IsName(proj[6].t))
                isInt   == Len(proj) = 1 /\ IsDigits(proj[1].t)
                isCol   == Len(proj) = 1 /\ IsName(proj[1].t)
                \* a lone UNIQUE column is read from its index, in index order
                covered == ~hasW /\ ti > 0 /\ pcol > 0 /\ db.master[ti].cols[pcol].unique
                limit(rs) == IF hasL THEN SubSeq(rs, 1, Min({Len(rs), TextToNat(toks[q2 + 1].t)})) ELSE rs
            IN  IF proj = <<>> THEN SyntaxError(db, toks, p + 1)
                ELSE IF ~(isStar \/ isCount \/ isInt \/ isCol) THEN SyntaxError(db, toks, p + 2)
                ELSE IF hasF /\ f0 + 1 >= stop THEN SyntaxError(db, toks, f0 + 1)
                ELSE IF hasF /\ ~IsName(toks[f0 + 1].t) THEN SyntaxError(db, toks, f0 + 1)
                ELSE IF hasF /\ ~IsMasterName(tname) /\ ti = 0
                     THEN SqlErr(db, "no such table: " \o tname)
                ELSE IF hasW /\ ~WhereOk(q1, stop) THEN SyntaxError(db, toks, q1 + 1)
                ELSE IF hasW /\ wcol = 0
                     THEN SqlErr(db, "no such column: " \o Ident(toks[q1 + 1].t))
                ELSE IF hasL /\ ~lOk THEN SyntaxError(db, toks, q2 + 1)
                ELSE IF (IF hasL THEN q2 + 2 ELSE q2) # stop
                     THEN SyntaxError(db, toks, IF hasL THEN q2 + 2 ELSE q2)
                ELSE IF isStar /\ ~hasF THEN SqlErr(db, "no tables specified")
                ELSE IF isCol /\ pcol = 0
                     THEN SqlErr(db, "no such column: " \o Ident(proj[1].t))
                ELSE IF isStar THEN SqlOk(db, srcCols, limit(rowsW), FALSE)
                ELSE IF isCount
                     THEN SqlOk(db,
                                <<IF Len(proj) = 6 THEN Ident(proj[6].t)
                                  ELSE proj[1].t \o "(" \o "*" \o ")">>,
                                limit(<< <<IntV(Len(rowsW))>> >>), FALSE)
                ELSE IF isInt
                     THEN SqlOk(db, <<proj[1].t>>,
                                limit([i \in 1..Len(rowsW) |-> <<Literal(proj[1].t)>>]), FALSE)
                ELSE SqlOk(db, <<srcCols[pcol]>>,
                           limit(IF covered
                                 THEN SortRows({<<rowsW[i][pcol]>> : i \in 1..Len(rowsW)})
                                 ELSE [i \in 1..Len(rowsW) |-> <<rowsW[i][pcol]>>]),
                           FALSE)

        \* the source rows filtered by WHERE <column> <op> <literal>
        SelectFilter(p, stop, f0, tname, q1, q2, ti, srcCols, srcRows, proj, wcol) ==
            SelectProject(p, stop, f0, tname, q1, q2, ti, srcCols, proj, wcol,
                          IF wcol > 0
                          THEN SelectSeq2(srcRows, wcol,
                                          [op |-> toks[q1 + 2].t, v |-> Literal(toks[q1 + 3].t)])
                          ELSE srcRows,
                          IF Len(proj) = 1 /\ IsName(proj[1].t)
                          THEN ColIdx(srcCols, Ident(proj[1].t)) ELSE 0)

        \* the columns and rows of the table named after FROM (one empty row without FROM)
        SelectSource(p, stop, f0, tname, q1, q2, ti, srcCols, srcRows) ==
            SelectFilter(p, stop, f0, tname, q1, q2, ti, srcCols, srcRows,
                         SubSeq(toks, p + 1, (IF f0 < stop THEN f0 ELSE stop) - 1),
                         IF HasWhere(q1, stop) /\ WhereOk(q1, stop)
                         THEN ColIdx(srcCols, Ident(toks[q1 + 1].t)) ELSE 0)

        SelectTable(p, stop, f0, tname, q1, ti) ==
            LET hasF   == f0 < stop
                master == IsMasterName(tname)
            IN  SelectSource(p, stop, f0, tname, q1,
                             IF HasWhere(q1, stop) THEN q1 + 4 ELSE q1, ti,
                             IF ~hasF THEN <<>>
                             ELSE IF master THEN <<"type", "name", "tbl_name", "rootpage", "sql">>
                             ELSE IF ti > 0 THEN ColNames(db.master[ti]) ELSE <<>>,
                             IF ~hasF THEN << <<>> >>
                             ELSE IF master THEN MasterRows(db)
                             ELSE IF ti > 0 THEN db.master[ti].rows ELSE <<>>)

        SelectFrom(p, stop, f0, tname) ==
            LET hasF  == f0 < stop
                alias == hasF /\ f0 + 2 < stop /\ IsName(toks[f0 + 2].t)
                            /\ KW(toks, f0 + 2) \notin {"WHERE", "LIMIT"}
            IN  SelectTable(p, stop, f0, tname,
                            IF alias THEN f0 + 3 ELSE IF hasF THEN f0 + 2 ELSE stop,
                            TableIdx(db, tname))

        SelectNamed(p, stop, f0) ==
            SelectFrom(p, stop, f0,
                       IF f0 + 1 < stop THEN Ident(toks[f0 + 1].t) ELSE "")

        \* one SELECT core in toks[p .. stop-1]; toks[p] is SELECT
        SelectCore(p, stop) ==
            SelectNamed(p, stop, FindKW(toks, p + 1, "FROM"))

        \* a UNION b: the rows of both, sorted, without duplicates
        UnionOf(u, a, b) ==
            IF u > Len(toks) THEN a
            ELSE IF KW(toks, u + 1) # "SELECT" THEN SyntaxError(db, toks, u + 1)
            ELSE IF ~a.ok THEN a
            ELSE IF ~b.ok THEN b
            ELSE IF Len(a.cols) # Len(b.cols)
                 THEN SqlErr(db, "SELECTs to the left and right of UNION do not have the same number of result columns")
            ELSE SqlOk(db, a.cols, SortRows(SeqRange(a.rows) \cup SeqRange(b.rows)), FALSE)

        SelectUnion(u) ==
            UnionOf(u, SelectCore(1, u),
                    SelectCore(u + 1, Len(toks) + 1))
    IN
    SelectUnion(FindKW(toks, 2, "UNION"))

\* PRAGMA table_info
TableInfoCols == <<"cid", "name", "type", "notnull", "dflt_value", "pk">>

ExecPragma(db, toks) ==
    LET ti == IF Len(toks) >= 4 THEN TableIdx(db, Ident(toks[4].t)) ELSE 0
        e  == db.master[ti]
    IN  IF KW(toks, 2) # "TABLE_INFO" THEN SqlOk(db, <<>>, <<>>, FALSE)
        ELSE IF Len(toks) < 3 \/ toks[3].t # "(" THEN SyntaxError(db, toks, 3)
        ELSE IF Len(toks) < 4 \/ ~(IsName(toks[4].t) \/ IsLiteral(toks[4].t))
             THEN SyntaxError(db, toks, 4)
        ELSE IF Len(toks) < 5 \/ toks[5].t # ")" THEN SyntaxError(db, toks, 5)
        ELSE IF Len(toks) > 5 THEN SyntaxError(db, toks, 6)
        ELSE IF ti = 0 THEN SqlOk(db, TableInfoCols, <<>>, FALSE)
        ELSE SqlOk(db, TableInfoCols,
                   [i \in 1..Len(e.cols) |->
                       <<IntV(i - 1), TextV(e.cols[i].name), TextV(e.cols[i].type),
                         IntV(e.cols[i].notnull), e.cols[i].dflt_value,
                         IntV(e.cols[i].pk)>>],
                   FALSE)

\* CREATE TABLE: toks[i..] cut at the commas outside parentheses
RECURSIVE SplitTop(_, _, _, _)
SplitTop(toks, i, depth, cur) ==
    IF i > Len(toks) THEN <<cur>>
    ELSE IF toks[i].t = "," /\ depth = 0
         THEN <<cur>> \o SplitTop(toks, i + 1, 0, <<>>)
    ELSE SplitTop(toks, i + 1,
                  depth + (IF toks[i].t = "(" THEN 1
                           ELSE IF toks[i].t = ")" THEN 0 - 1 ELSE 0),
                  Append(cur, toks[i]))

HasKW(part, kw) == \E i \in 1..Len(part) : KW(part, i) = kw

HasKW2(part, kw1, kw2) ==
    \E i \in 1..(Len(part) - 1) : KW(part, i) = kw1 /\ KW(part, i + 1) = kw2

RECURSIVE ColDefs(_)
ColDefs(parts) ==
    LET part == Head(parts)
        declared == IF Len(part) >= 2
                       /\ KW(part, 2) \notin
                            {"PRIMARY", "NOT", "NULL", "UNIQUE", "DEFAULT",
                             "REFERENCES", "CHECK", "AUTOINCREMENT", "COLLATE",
                             "CONSTRAINT"}
                    THEN part[2].t ELSE ""
        d == FindKW(part, 1, "DEFAULT")
    IN  IF parts = <<>> THEN <<>>
        ELSE IF part = <<>> \/ ~IsName(part[1].t)
                \/ KW(part, 1) \in {"FOREIGN", "PRIMARY", "UNIQUE", "CHECK", "CONSTRAINT"}
             THEN ColDefs(Tail(parts))
        ELSE <<[name       |-> Ident(part[1].t),
                type       |-> IF upper(declared) \in {"INT", "INTEGER", "REAL", "TEXT",
                                                       "BLOB", "ANY"}
                               THEN upper(declared)
                               ELSE declared,
                notnull    |-> IF HasKW2(part, "NOT", "NULL") THEN 1 ELSE 0,
                dflt_value |-> IF d < Len(part) THEN TextV(part[d + 1].t) ELSE NullV,
                pk         |-> IF HasKW2(part, "PRIMARY", "KEY") THEN 1 ELSE 0,
                autoinc    |-> HasKW(part, "AUTOINCREMENT"),
                unique     |-> HasKW(part, "UNIQUE")]>>
                \o ColDefs(Tail(parts))

NextRoot(db) ==
    IF db.master = <<>> THEN 2
    ELSE 1 + Max({db.master[i].rootpage : i \in 1..Len(db.master)})

TableEntry(name, root, sql, cols) ==
    [type |-> "table", name |-> name, tbl_name |-> name, rootpage |-> root,
     sql |-> TextV(sql), cols |-> cols, rows |-> <<>>]

\* the automatic indexes of the UNIQUE columns, numbered from n, roots from root
RECURSIVE AutoIndexes(_, _, _, _)
AutoIndexes(tbl, cols, n, root) ==
    IF cols = <<>> THEN <<>>
    ELSE IF Head(cols).unique
         THEN <<[type |-> "index",
                  name |-> "sqlite_autoindex_" \o tbl \o "_" \o IntToText(n),
                  tbl_name |-> tbl, rootpage |-> root,
                  sql |-> NullV, cols |-> <<>>, rows |-> <<>>]>>
                 \o AutoIndexes(tbl, Tail(cols), n + 1, root + 1)
    ELSE AutoIndexes(tbl, Tail(cols), n, root)

ExecCreate(db, sql, toks) ==
    LET
        \* the new table and its automatic indexes appended to sqlite_master
        CreateCols(n, name, parts, cols, root, idx) ==
            LET last  == Len(toks)
                needSeq == (\E i \in 1..Len(cols) : cols[i].autoinc)
                              /\ TableIdx(db, "sqlite_sequence") = 0
                \* sqlite_sequence, made with the first AUTOINCREMENT table
                sequence ==
                    TableEntry("sqlite_sequence", root + 1 + Len(idx),
                               "CREATE TABLE sqlite_sequence(name,seq)",
                               [i \in 1..2 |->
                                   [name |-> <<"name", "seq">>[i], type |-> "",
                                    notnull |-> 0, dflt_value |-> NullV, pk |-> 0,
                                    autoinc |-> FALSE, unique |-> FALSE]])
                entry == TableEntry(name, root,
                                    "CREATE TABLE " \o SubSeq(sql, toks[n].at, toks[last].end),
                                    cols)
            IN  IF KW(toks, 2) # "TABLE" THEN SyntaxError(db, toks, 2)
                ELSE IF n > last THEN SyntaxError(db, toks, n)
                ELSE IF ~IsName(toks[n].t) THEN SyntaxError(db, toks, n)
                ELSE IF n + 1 > last THEN SyntaxError(db, toks, n + 1)
                ELSE IF toks[n + 1].t # "(" THEN SyntaxError(db, toks, n + 1)
                ELSE IF n + 2 > last THEN SyntaxError(db, toks, n + 2)
                ELSE IF toks[last].t # ")" THEN SyntaxError(db, toks, last + 1)
                ELSE IF \E i \in 1..Len(parts) : parts[i] = <<>> \/ ~IsName(parts[i][1].t)
                     THEN SyntaxError(db, toks, last)
                ELSE IF startswith(upper(name), "SQLITE_")
                     THEN SqlErr(db, "object name reserved for internal use: " \o name)
                ELSE IF TableIdx(db, name) > 0
                     THEN IF n = 6 THEN SqlOk(db, <<>>, <<>>, FALSE)
                          ELSE SqlErr(db, "table " \o name \o " already exists")
                ELSE SqlOk([db EXCEPT !.master =
                                @ \o <<entry>> \o idx
                                  \o (IF needSeq THEN <<sequence>>
                                      ELSE <<>>)],
                           <<>>, <<>>, FALSE)

        CreateParts(n, name, parts, cols) ==
            CreateCols(n, name, parts, cols, NextRoot(db),
                       AutoIndexes(name, cols, 1, NextRoot(db) + 1))

        \* CREATE TABLE [IF NOT EXISTS] name ( column or constraint, ... ); the name
        \* is toks[n]
        CreateNamed(n, parts) ==
            CreateParts(n,
                        IF n <= Len(toks) THEN Ident(toks[n].t) ELSE "",
                        parts, ColDefs(parts))

        CreateAt(n) ==
            CreateNamed(n,
                        SplitTop(SubSeq(toks, n + 2, Len(toks) - 1), 1, 0, <<>>))
    IN
    CreateAt(IF KW(toks, 3) = "IF" /\ KW(toks, 4) = "NOT" /\ KW(toks, 5) = "EXISTS"
                 THEN 6 ELSE 3)

\* INSERT
\* the texts of toks[a..b] at every other position (a comma-separated list)
RECURSIVE ListItems(_, _, _)
ListItems(toks, a, b) ==
    IF a > b THEN <<>> ELSE <<toks[a].t>> \o ListItems(toks, a + 2, b)

IsCommaList(toks, a, b) ==
    /\ a <= b
    /\ (b - a) % 2 = 0
    /\ \A i \in a..b : ((i - a) % 2 = 1) = (toks[i].t = ",")

\* the values bound to a VALUES list: the n-th ? takes the n-th parameter
RECURSIVE BindValues(_, _)
BindValues(items, params) ==
    IF items = <<>> THEN <<>>
    ELSE IF Head(items) = "?"
         THEN <<Head(params)>> \o BindValues(Tail(items), Tail(params))
    ELSE <<Literal(Head(items))>> \o BindValues(Tail(items), params)

ExecInsert(db, toks, params) ==
    LET
        \* the row checked against NOT NULL and UNIQUE, then stored; OR IGNORE
        \* drops a failing row but keeps the sqlite_sequence value it took
        InsertRow(n, name, ti, c, names, items, rowid, row) ==
            LET orIgnore == n = 4
                placeholders == Cardinality({i \in 1..Len(items) : items[i] = "?"})
                seqIdx == TableIdx(db, "sqlite_sequence")
                setSeq(rows) ==
                    IF \E i \in 1..Len(rows) : rows[i][1] = TextV(name)
                    THEN [i \in 1..Len(rows) |->
                            IF rows[i][1] = TextV(name)
                            THEN <<TextV(name), IntV(rowid)>> ELSE rows[i]]
                    ELSE Append(rows, <<TextV(name), IntV(rowid)>>)
                e      == db.master[ti]
                isAuto == \E j \in 1..Len(e.cols) : e.cols[j].autoinc
                nullAt == {j \in 1..Len(e.cols) : e.cols[j].notnull = 1 /\ row[j] = NullV}
                dupAt  == {j \in 1..Len(e.cols) :
                             /\ e.cols[j].unique \/ e.cols[j].pk = 1
                             /\ row[j] # NullV
                             /\ \E i \in 1..Len(e.rows) : e.rows[i][j] = row[j]}
                seqd   == IF isAuto
                          THEN [db EXCEPT !.master[seqIdx].rows = setSeq(@)]
                          ELSE db
            IN  IF ~(orIgnore \/ KW(toks, 2) = "INTO") THEN SyntaxError(db, toks, 2)
                ELSE IF KW(toks, n) # "INTO" THEN SyntaxError(db, toks, n)
                ELSE IF n + 1 > Len(toks) \/ ~IsName(toks[n + 1].t)
                     THEN SyntaxError(db, toks, n + 1)
                ELSE IF n + 2 > Len(toks) \/ toks[n + 2].t # "("
                     THEN SyntaxError(db, toks, n + 2)
                ELSE IF c > Len(toks) \/ ~IsCommaList(toks, n + 3, c - 1)
                     THEN SyntaxError(db, toks, c)
                ELSE IF KW(toks, c + 1) # "VALUES" THEN SyntaxError(db, toks, c + 1)
                ELSE IF c + 2 > Len(toks) \/ toks[c + 2].t # "("
                     THEN SyntaxError(db, toks, c + 2)
                ELSE IF toks[Len(toks)].t # ")" \/ ~IsCommaList(toks, c + 3, Len(toks) - 1)
                     THEN SyntaxError(db, toks, Len(toks) + 1)
                ELSE IF ti = 0 THEN SqlErr(db, "no such table: " \o name)
                ELSE IF \E m \in 1..Len(names) : ColIdx(ColNames(e), Ident(names[m])) = 0
                     THEN SqlErr(db, "table " \o e.name \o " has no column named "
                                       \o (CHOOSE x \in SeqRange(names) :
                                               ColIdx(ColNames(e), Ident(x)) = 0))
                ELSE IF Len(items) # Len(names)
                     THEN SqlErr(db, IntToText(Len(items)) \o " values for "
                                       \o IntToText(Len(names)) \o " columns")
                ELSE IF placeholders # Len(params)
                     THEN SqlErr(db, "Incorrect number of bindings supplied. The current statement uses "
                                       \o IntToText(placeholders) \o ", and there are "
                                       \o IntToText(Len(params)) \o " supplied.")
                ELSE IF nullAt \cup dupAt # {} /\ orIgnore THEN SqlOk(seqd, <<>>, <<>>, TRUE)
                ELSE IF nullAt \cup dupAt # {}
                     THEN SqlErr(db, (IF Min(nullAt \cup dupAt) \in nullAt
                                      THEN "NOT NULL" ELSE "UNIQUE")
                                       \o " constraint failed: " \o e.name \o "."
                                       \o e.cols[Min(nullAt \cup dupAt)].name)
                ELSE SqlOk([seqd EXCEPT !.master[ti].rows = Append(@, row)],
                           <<>>, <<>>, TRUE)

        \* the row to store: the given values, the next rowid, the column defaults
        InsertValues(n, name, ti, c, names, items, vals, rowid) ==
            LET e == db.master[ti]
                default(col) ==
                    IF col.dflt_value = NullV THEN NullV
                    ELSE IF upper(col.dflt_value.s) = "CURRENT_TIMESTAMP"
                         THEN TextV("2025-01-01 00:00:00")
                    ELSE Literal(col.dflt_value.s)
                given(j) == IF \E m \in 1..Len(names) : upper(Ident(names[m])) = upper(e.cols[j].name)
                            THEN CHOOSE m \in 1..Len(names) :
                                    upper(Ident(names[m])) = upper(e.cols[j].name)
                            ELSE 0
            IN  InsertRow(n, name, ti, c, names, items, rowid,
                          [j \in 1..Len(e.cols) |->
                              IF given(j) > 0 THEN vals[given(j)]
                              ELSE IF e.cols[j].pk = 1 /\ e.cols[j].type = "INTEGER"
                                   THEN IntV(rowid)
                              ELSE default(e.cols[j])])

        InsertList(n, name, ti, c, names, items) ==
            LET e == db.master[ti]
                isAuto == \E j \in 1..Len(e.cols) : e.cols[j].autoinc
                pk  == IF \E j \in 1..Len(e.cols) : e.cols[j].pk = 1
                       THEN CHOOSE j \in 1..Len(e.cols) : e.cols[j].pk = 1 ELSE 0
                ids == IF pk = 0 THEN {Len(e.rows)}
                       ELSE {e.rows[i][pk].i : i \in 1..Len(e.rows)} \cup {0}
                \* the sqlite_sequence value of the table
                seqRows == IF TableIdx(db, "sqlite_sequence") > 0
                           THEN db.master[TableIdx(db, "sqlite_sequence")].rows ELSE <<>>
                seq == {r[2].i : r \in {x \in SeqRange(seqRows) : x[1] = TextV(e.name)}}
            IN  InsertValues(n, name, ti, c, names, items,
                             BindValues(items, params),
                             1 + Max(ids \cup (IF isAuto THEN seq ELSE {})))

        InsertTable(n, name, ti, c) ==
            InsertList(n, name, ti, c,
                       ListItems(toks, n + 3, c - 1),
                       ListItems(toks, c + 3, Len(toks) - 1))

        \* INSERT [OR IGNORE] INTO name (columns) VALUES (values); INTO is toks[n]
        InsertInto(n, name) ==
            InsertTable(n, name, TableIdx(db, name),
                        FindKW(toks, n + 2, ")"))

        InsertAt(n) ==
            InsertInto(n,
                       IF n + 1 <= Len(toks) THEN Ident(toks[n + 1].t) ELSE "")
    IN
    InsertAt(IF KW(toks, 2) = "OR" /\ KW(toks, 3) = "IGNORE" THEN 4 ELSE 2)

\* DROP TABLE, DELETE, UPDATE
RECURSIVE WithoutTable(_, _)
WithoutTable(master, name) ==
    IF master = <<>> THEN <<>>
    ELSE (IF upper(Head(master).tbl_name) = upper(name) THEN <<>>
          ELSE <<IF Head(master).name = "sqlite_sequence"
                 THEN [Head(master) EXCEPT !.rows =
                         SelectSeq(@, LAMBDA r : upper(r[1].s) # upper(name))]
                 ELSE Head(master)>>)
            \o WithoutTable(Tail(master), name)

ExecDrop(db, toks) ==
    LET name == IF Len(toks) >= 3 THEN Ident(toks[3].t) ELSE "" IN
    IF KW(toks, 2) # "TABLE" THEN SyntaxError(db, toks, 2)
    ELSE IF Len(toks) < 3 \/ ~IsName(toks[3].t) THEN SyntaxError(db, toks, 3)
    ELSE IF Len(toks) > 3 THEN SyntaxError(db, toks, 4)
    ELSE IF TableIdx(db, name) = 0 THEN SqlErr(db, "no such table: " \o name)
    ELSE SqlOk([db EXCEPT !.master = WithoutTable(@, name)], <<>>, <<>>, FALSE)

ExecDelete(db, toks) ==
    LET name == IF Len(toks) >= 3 THEN Ident(toks[3].t) ELSE ""
        ti   == TableIdx(db, name)
    IN  IF KW(toks, 2) # "FROM" THEN SyntaxError(db, toks, 2)
        ELSE IF Len(toks) < 3 \/ ~IsName(toks[3].t) THEN SyntaxError(db, toks, 3)
        ELSE IF Len(toks) > 3 THEN SyntaxError(db, toks, 4)
        ELSE IF ti = 0 THEN SqlErr(db, "no such table: " \o name)
        ELSE SqlOk([db EXCEPT !.master[ti].rows = <<>>], <<>>, <<>>, TRUE)

ExecUpdate(db, toks) ==
    LET name == IF Len(toks) >= 2 THEN Ident(toks[2].t) ELSE ""
        ti   == TableIdx(db, name)
        e    == db.master[ti]
        c    == IF ti > 0 /\ Len(toks) >= 4 THEN ColIdx(ColNames(e), Ident(toks[4].t))
                ELSE 0
    IN  IF Len(toks) < 2 \/ ~IsName(toks[2].t) THEN SyntaxError(db, toks, 2)
        ELSE IF KW(toks, 3) # "SET" THEN SyntaxError(db, toks, 3)
        ELSE IF Len(toks) < 4 \/ ~IsName(toks[4].t) THEN SyntaxError(db, toks, 4)
        ELSE IF Len(toks) < 5 \/ toks[5].t # "=" THEN SyntaxError(db, toks, 5)
        ELSE IF Len(toks) < 6 \/ ~IsLiteral(toks[6].t) THEN SyntaxError(db, toks, 6)
        ELSE IF Len(toks) > 6 THEN SyntaxError(db, toks, 7)
        ELSE IF ti = 0 THEN SqlErr(db, "no such table: " \o name)
        ELSE IF c = 0 THEN SqlErr(db, "no such column: " \o Ident(toks[4].t))
        ELSE SqlOk([db EXCEPT !.master[ti].rows =
                        [i \in 1..Len(@) |-> [@[i] EXCEPT ![c] = Literal(toks[6].t)]]],
                   <<>>, <<>>, TRUE)

\* the first statement of the text run: toks are its tokens
Prepared(db, sql, params, all, semi, toks, kw) ==
    CASE toks = <<>>   -> IF semi <= Len(all) THEN SyntaxError(db, all, semi)
                          ELSE SqlOk(db, <<>>, <<>>, FALSE)
      [] kw = "SELECT" -> ExecSelect(db, toks)
      [] kw = "PRAGMA" -> ExecPragma(db, toks)
      [] kw = "INSERT" -> ExecInsert(db, toks, params)
      [] kw = "CREATE" -> ExecCreate(db, sql, toks)
      [] kw = "DROP"   -> ExecDrop(db, toks)
      [] kw = "DELETE" -> ExecDelete(db, toks)
      [] kw = "UPDATE" -> ExecUpdate(db, toks)
      [] OTHER         -> SyntaxError(db, toks, 1)

\* a text holding a second statement is refused once the first is prepared
OneStatement(db, all, semi, r) ==
    IF ~r.ok THEN r
    ELSE IF semi < Len(all)
         THEN SqlErr(db, "You can only execute one statement at a time.")
    ELSE r

FirstStatement(db, sql, params, all, semi) ==
    OneStatement(db, all, semi,
                 Prepared(db, sql, params, all, semi, SubSeq(all, 1, semi - 1),
                          KW(all, IF semi > 1 THEN 1 ELSE 0)))

\* cursor.execute(sql, params): sqlite3 prepares the first statement of the
\* text, refuses a text holding a second one, and runs it
Tokenized(db, sql, params, all) ==
    FirstStatement(db, sql, params, all,
               IF \E i \in 1..Len(all) : all[i].t = ";"
               THEN Min({i \in 1..Len(all) : all[i].t = ";"})
               ELSE Len(all) + 1)

sqlite_execute(db, sql, params) == Tokenized(db, sql, params, Tokens(sql, 1))

(***************************************************************************)
(* DatabaseManager                                                         *)
(***************************************************************************)
\* the three statements of init_db, as written in the source
InitStatements ==
    <<
      "\n"
      \o "                CREATE TABLE IF NOT EXISTS users (\n"
      \o "                    id INTEGER PRIMARY KEY AUTOINCREMENT,\n"
      \o "                    name TEXT NOT NULL,\n"
      \o "                    email TEXT UNIQUE NOT NULL,\n"
      \o "                    age INTEGER,\n"
      \o "                    created_at TIMESTAMP DEFAULT CURRENT_TIMESTAMP\n"
      \o "                )\n"
      \o "            ",

      "\n"
      \o "                CREATE TABLE IF NOT EXISTS products (\n"
      \o "                    id INTEGER PRIMARY KEY AUTOINCREMENT,\n"
      \o "                    name TEXT NOT NULL,\n"
      \o "                    price REAL NOT NULL,\n"
      \o "                    category TEXT,\n"
      \o "                    stock_quantity INTEGER DEFAULT 0,\n"
      \o "                    created_at TIMESTAMP DEFAULT CURRENT_TIMESTAMP\n"
      \o "                )\n"
      \o "            ",

      "\n"
      \o "                CREATE TABLE IF NOT EXISTS orders (\n"
      \o "                    id INTEGER PRIMARY KEY AUTOINCREMENT,\n"
      \o "                    user_id INTEGER,\n"
      \o "                    product_id INTEGER,\n"
      \o "                    quantity INTEGER NOT NULL,\n"
      \o "                    total_price REAL NOT NULL,\n"
      \o "                    order_date TIMESTAMP DEFAULT CURRENT_TIMESTAMP,\n"
      \o "                    FOREIGN KEY (user_id) REFERENCES users(id),\n"
      \o "                    FOREIGN KEY (product_id) REFERENCES products(id)\n"
      \o "                )\n"
      \o "            "
    >>

\* init_db: one connection, the three CREATE TABLE IF NOT EXISTS, one commit
RECURSIVE init_db_from(_, _)
init_db_from(db, i) ==
    IF i > Len(InitStatements) THEN db
    ELSE init_db_from(sqlite_execute(db, InitStatements[i], <<>>).db, i + 1)

init_db(db) == init_db_from(db, 1)

\* dict(row): the first column of a name wins
RECURSIVE FirstKeys(_, _)
FirstKeys(cols, i) ==
    IF i > Len(cols) THEN <<>>
    ELSE (IF \E j \in 1..(i - 1) : cols[j] = cols[i] THEN <<>> ELSE <<i>>)
            \o FirstKeys(cols, i + 1)

\* execute_query: connect, execute, fetchall, close without commit.  What a
\* DML statement changed is rolled back by the close; a CREATE or DROP is
\* not run inside a transaction by sqlite3 and stays.
execute_query(db, query, params) ==
    LET dict(cols, at, row) ==
            DictV([n \in 1..Len(at) |-> cols[at[n]]],
                  [n \in 1..Len(at) |-> row[at[n]]])
        fetchall(r) ==
            [ok |-> r.ok, err |-> r.err,
             results |-> [i \in 1..Len(r.rows) |->
                            dict(r.cols, FirstKeys(r.cols, 1), r.rows[i])],
             db |-> IF r.ok /\ ~r.dml THEN r.db ELSE db]
    IN  fetchall(sqlite_execute(db, query, params))

\* seeded fault: a rejected write that takes the earlier commits with it
execute_write_losing(db, query, params) ==
    LET lose(r) == [ok |-> r.ok, err |-> r.err,
                    db |-> IF r.ok THEN r.db ELSE [master |-> <<>>]]
    IN  lose(sqlite_execute(db, query, params))

\* execute_write: connect, execute, commit, close
execute_write(db, query, params) ==
    LET commit(r) == [ok |-> r.ok, err |-> r.err, db |-> IF r.ok THEN r.db ELSE db]
    IN  commit(sqlite_execute(db, query, params))

(***************************************************************************)
(* OllamaLlamaIndexClient                                                  *)
(***************************************************************************)
DEFAULT_MODEL == "llama3.2"

Fence == Tick \o Tick \o Tick

\* what llm.acomplete can answer, and the exceptions it can raise
LlmReplies ==
    {"Mock LLM response",
     "SELECT * FROM users WHERE age > 25",
     Fence \o "sql\nSELECT name, email FROM users\n" \o Fence,
     " " \o Fence \o "\nDROP TABLE products\n" \o Fence \o "\n"}

LlmOutcomes ==
    {[ok |-> TRUE, text |-> t] : t \in LlmReplies}
      \cup {[ok |-> FALSE, text |-> "All connection attempts failed"]}

\* seeded faults: a prompt that drops the context, a client that returns the
\* exception's text without its label
chat_prompt_message_only(message, context) == message

generate_unlabelled(o) == o.text

\* seeded fault: a clean-up that drops the last three characters only when
\* they are a fence
strip_code_fence_if_closed(response) ==
    LET sql_query == strip(response)
        end == IF Len(sql_query) >= 3
                  /\ SubSeq(sql_query, Len(sql_query) - 2, Len(sql_query)) = Fence
               THEN 0 - 3 ELSE Len(sql_query)
    IN  IF startswith(sql_query, Fence \o "sql") THEN strip(Slice(sql_query, 6, end))
        ELSE IF startswith(sql_query, Fence) THEN strip(Slice(sql_query, 3, end))
        ELSE sql_query

\* seeded fault: a clean-up that does not trim what is left between the fences
strip_code_fence_untrimmed(response) ==
    LET sql_query == strip(response)
    IN  IF startswith(sql_query, Fence \o "sql") THEN Slice(sql_query, 6, 0 - 3)
        ELSE IF startswith(sql_query, Fence) THEN Slice(sql_query, 3, 0 - 3)
        ELSE sql_query

\* generate: str(response), or the error text when acomplete raised
generate(o) ==
    IF o.ok THEN o.text
    ELSE "Error communicating with Ollama via LlamaIndex: " \o o.text

\* what GET /api/tags can list; a failed request is the third outcome
TagsOutcomes ==
    {[ok |-> TRUE, models |-> m] : m \in {<<>>, <<"llama3.2", "gemma2">>}}
      \cup {[ok |-> FALSE, models |-> <<>>]}

\* list_models: the names listed, [] when the request failed
list_models(o) == IF o.ok THEN o.models ELSE <<>>

(***************************************************************************)
(* Texts of the tool handlers                                              *)
(***************************************************************************)

\* seeded fault: an INSERT that a used email makes fail
INSERT_USER_OR_FAIL ==
    "INSERT INTO users (name, email, age) VALUES (?, ?, ?)"

INSERT_USER ==
    "INSERT OR IGNORE INTO users (name, email, age) VALUES (?, ?, ?)"
INSERT_PRODUCT ==
    "INSERT OR IGNORE INTO products (name, price, category, stock_quantity) VALUES (?, ?, ?, ?)"

\* seeded fault: the sample data with one product only
SampleWritesOneProduct ==
    <<[sql |-> INSERT_USER,
       params |-> <<TextV("John Doe"), TextV("john@example.com"), IntV(30)>>],
      [sql |-> INSERT_USER,
       params |-> <<TextV("Jane Smith"), TextV("jane@example.com"), IntV(25)>>],
      [sql |-> INSERT_PRODUCT,
       params |-> <<TextV("Laptop"), RealV("999.99"), TextV("Electronics"), IntV(10)>>]>>

\* the four writes of insert_sample_data, in order
SampleWrites ==
    <<[sql |-> INSERT_USER,
       params |-> <<TextV("John Doe"), TextV("john@example.com"), IntV(30)>>],
      [sql |-> INSERT_USER,
       params |-> <<TextV("Jane Smith"), TextV("jane@example.com"), IntV(25)>>],
      [sql |-> INSERT_PRODUCT,
       params |-> <<TextV("Laptop"), RealV("999.99"), TextV("Electronics"), IntV(10)>>],
      [sql |-> INSERT_PRODUCT,
       params |-> <<TextV("Coffee Mug"), RealV("12.99"), TextV("Kitchen"), IntV(50)>>]>>

tables_query == "SELECT name FROM sqlite_master WHERE type='table'"
schema_query(table_name) == "PRAGMA table_info(" \o table_name \o ")"
count_query(table_name) == "SELECT COUNT(" \o "*) as count FROM " \o table_name
\* seeded fault: the data query without its LIMIT
data_query_unlimited(table_name) == "SELECT * FROM " \o table_name

data_query(table_name) == "SELECT * FROM " \o table_name \o " LIMIT 10"
sample_query(table_name) == "SELECT * FROM " \o table_name \o " LIMIT 5"

analyze_data_prompt(table_name, schema_results, data_results, question) ==
    "\n"
    \o "        You are a data analyst. I have a database table called '"
    \o table_name
    \o "' with the following schema:\n"
    \o "        "
    \o json_dumps(ListV(schema_results))
    \o "\n"
    \o "        \n"
    \o "        Here's a sample of the data:\n"
    \o "        "
    \o json_dumps(ListV(data_results))
    \o "\n"
    \o "        \n"
    \o "        Question: "
    \o question
    \o "\n"
    \o "        \n"
    \o "        Please provide insights and analysis based on this data. I"
    \o "f you need to suggest SQL queries, make sure they are SELECT queri"
    \o "es only.\n"
    \o "        "

analyze_database_context(schema_info, all_data) ==
    "\n"
    \o "        Database Schema:\n"
    \o "        "
    \o schema_info
    \o "\n"
    \o "        \n"
    \o "        Sample Data:\n"
    \o "        "
    \o json_dumps(all_data)
    \o "\n"
    \o "        "

analyze_database_prompt(context, question) ==
    "\n"
    \o "        You are a database analyst with access to a SQLite databas"
    \o "e. \n"
    \o "        \n"
    \o "        "
    \o context
    \o "\n"
    \o "        \n"
    \o "        Question: "
    \o question
    \o "\n"
    \o "        \n"
    \o "        Please provide a comprehensive analysis. If you suggest SQ"
    \o "L queries, ensure they are SELECT statements only.\n"
    \o "        Include insights, patterns, and recommendations based on t"
    \o "he data.\n"
    \o "        "

\* seeded fault: the prompt with the user's request ahead of the schema
generate_sql_prompt_request_first(schema_info, description) ==
    "\n"
    \o "        You are a SQL expert. Given the following database schema,"
    \o " generate a SQL query based on the user's description.\n"
    \o "        \n"
    \o "        User Request: "
    \o description
    \o "\n"
    \o "        \n"
    \o "        Database Schema:\n"
    \o "        "
    \o schema_info
    \o "\n"
    \o "        \n"
    \o "        Generate only a SELECT SQL query that fulfills the request"
    \o ". Do not include explanations, just the SQL query.\n"
    \o "        Ensure the query is safe and only uses SELECT statements.\n"
    \o "        "

generate_sql_prompt(schema_info, description) ==
    "\n"
    \o "        You are a SQL expert. Given the following database schema,"
    \o " generate a SQL query based on the user's description.\n"
    \o "        \n"
    \o "        Database Schema:\n"
    \o "        "
    \o schema_info
    \o "\n"
    \o "        \n"
    \o "        User Request: "
    \o description
    \o "\n"
    \o "        \n"
    \o "        Generate only a SELECT SQL query that fulfills the request"
    \o ". Do not include explanations, just the SQL query.\n"
    \o "        Ensure the query is safe and only uses SELECT statements.\n"
    \o "        "

chat_prompt(message, context) ==
    IF context # ""
    THEN "Context: " \o context \o "\n\nUser: " \o message \o "\n\nAssistant:"
    ELSE message

\* the clean-up of the generated SQL
strip_code_fence(response) ==
    LET sql_query == strip(response)
    IN  IF startswith(sql_query, Fence \o "sql") THEN strip(Slice(sql_query, 6, 0 - 3))
        ELSE IF startswith(sql_query, Fence) THEN strip(Slice(sql_query, 3, 0 - 3))
        ELSE sql_query

generated_sql_text(sql_query) ==
    "Generated SQL Query:\n" \o sql_query
      \o "\n\nTo execute this query, use the query_database tool."

\* seeded fault: the heading without the model lines, whatever was listed
models_text_heading_only(models) == "Available Ollama models:\n"

models_text(models) ==
    LET line(i) == "- " \o models[i]
        RECURSIVE join(_)
        join(i) == IF i = Len(models) THEN line(i) ELSE line(i) \o "\n" \o join(i + 1)
    IN  IF models # <<>> THEN "Available Ollama models:\n" \o join(1) ELSE "No models found. Make sure Ollama is running and has models installed."

\* value of key in a dict
DictGet(d, key) == d.vals[CHOOSE i \in 1..Len(d.keys) : d.keys[i] = key]

\* d[key] = val
DictPut(d, key, val) ==
    IF \E i \in 1..Len(d.keys) : d.keys[i] = key
    THEN DictV(d.keys, [i \in 1..Len(d.keys) |-> IF d.keys[i] = key THEN val ELSE d.vals[i]])
    ELSE DictV(Append(d.keys, key), Append(d.vals, val))

\* seeded faults: gates that skip the trimming, skip the upper-casing, or
\* test a shorter keyword
SelectGateUntrimmed(sql) == startswith(upper(sql), "SELECT")
SelectGateOpen(sql) == sql = sql
CreateGateCaseSensitive(schema_sql) == startswith(strip(schema_sql), "CREATE TABLE")
CreateGateAnyCreate(schema_sql) == startswith(upper(strip(schema_sql)), "CREATE")

\* the safety checks of query_database and create_table
SelectGate(sql) == startswith(upper(strip(sql)), "SELECT")
CreateGate(schema_sql) == startswith(upper(strip(schema_sql)), "CREATE TABLE")

\* how a handler ends: a text handed back to the transport, or an exception
Returned(text) == [pc |-> "done", result |-> text]
Propagated(e)  == [pc |-> "raised", result |-> e]
Continue(label) == [pc |-> label, result |-> ""]

\* the except clauses
query_database_except(e) == Returned("Database error: " \o e)
insert_sample_data_except(e) == Returned("Error inserting sample data: " \o e)
\* seeded fault: a failed read that goes on to the LLM
analyze_data_with_llm_goes_on(e) == Continue("ad_llm")

analyze_data_with_llm_except(e) == Returned("Error analyzing data with LLM: " \o e)
get_database_schema_except(e) == Returned("Error getting database schema: " \o e)
create_table_except(e) == Returned("Error creating table: " \o e)
analyze_database_with_llamaindex_except(e) ==
    Returned("Error analyzing database with LlamaIndex: " \o e)

\* seeded fault: an empty result is formatted like any other
query_database_format_plain(results) == json_dumps(ListV(results))

\* the formatting of a query result
query_database_format(results) ==
    IF results = <<>> THEN "Query executed successfully but returned no results." ELSE json_dumps(ListV(results))

(***************************************************************************)
(* Bounds and the arguments the tools are called with                      *)
(***************************************************************************)
MaxCalls == 2

Procs  == {1, 2}
Serial == {1}

SqlArgs ==
    {"SELECT * FROM users",
     "select * from products",
     "  SELECT * FROM orders\n",
     "SELECT * FROM users WHERE age > 26",
     "SELECT COUNT(" \o "*) as count FROM users",
     "SELECT * FROM nonexistent_table",
     "SELECT 1; DROP TABLE users",
     "SELECT * FROM users UNION SELECT * FROM sqlite_master",
     "SELECTED",
     "",
     "  DELETE FROM users",
     "DROP TABLE users",
     "UPDATE users SET age = 100",
     "WITH x AS (SELECT 1) SELECT * FROM x",
     "CREATE TABLE t (id INTEGER)"}

CreateArgs ==
    {[table_name |-> "t",     schema_sql |-> "CREATE TABLE t (id INTEGER)"],
     [table_name |-> "notes", schema_sql |-> "  create table notes (id INTEGER PRIMARY KEY, body TEXT)\n"],
     [table_name |-> "a b",   schema_sql |-> "CREATE TABLE \"a b\" (id INTEGER)"],
     [table_name |-> "users", schema_sql |-> "CREATE TABLE IF NOT EXISTS users (id INTEGER)"],
     [table_name |-> "t",     schema_sql |-> "CREATE TABLE t (id INTEGER); DROP TABLE users"],
     [table_name |-> "t",     schema_sql |-> "CREATE TABLES"],
     [table_name |-> "users", schema_sql |-> "DROP TABLE users"],
     [table_name |-> "t",     schema_sql |-> "CREATE TEMP TABLE t (id INTEGER)"],
     [table_name |-> "t",     schema_sql |-> "SELECT * FROM users"],
     [table_name |-> "audit", schema_sql |-> "CREATE TABLE t (id INTEGER)"]}

TableArgs == {"users", "products", "orders", "missing", "users); DROP TABLE users; SELECT (1"}
QuestionArgs == {"How many rows are there?"}
PromptArgs == {"Hello"}
ContextArgs == {"", "X"}
DescriptionArgs == {"Find users older than 25"}
ModelArgs == {DEFAULT_MODEL}
ChatModelArgs == {DEFAULT_MODEL, "gemma2"}

\* a database call can also fail below SQL (the file cannot be opened, is locked)
DbFaults == {"database is locked"}

(***************************************************************************)
(* State                                                                   *)
(***************************************************************************)
VARIABLES
    db,        \* the SQLite file data/app.db
    before,    \* per invocation slot: the database when the call was dispatched
    pc,        \* per invocation slot: idle, a handler's await point, done, raised
    tool,      \* the handler the slot runs
    args,      \* its arguments
    loc,       \* its local variables
    result,    \* the text it returned
    executed,  \* the statements it handed to execute_query / execute_write
    prompts,   \* the completions it asked of llm.acomplete
    calls      \* the invocations dispatched so far

vars == <<db, before, pc, tool, args, loc, result, executed, prompts, calls>>

NoArgs == [none |-> TRUE]

Init ==
    /\ db = init_db([master |-> <<>>])
    /\ before = [p \in Procs |-> db]
    /\ pc = [p \in Procs |-> "idle"]
    /\ tool = [p \in Procs |-> "none"]
    /\ args = [p \in Procs |-> NoArgs]
    /\ loc = [p \in Procs |-> NoArgs]
    /\ result = [p \in Procs |-> ""]
    /\ executed = [p \in Procs |-> <<>>]
    /\ prompts = [p \in Procs |-> <<>>]
    /\ calls = 0

\* one execute_query call: its outcomes
ReadOutcomes(query) ==
    {[sql |-> query, params |-> <<>>] @@ execute_query(db, query, <<>>)}
      \cup {[sql |-> query, params |-> <<>>, ok |-> FALSE, err |-> f,
             results |-> <<>>, db |-> db] : f \in DbFaults}

\* one execute_write call: its outcomes
WriteOutcomes(query, params) ==
    {[sql |-> query, params |-> params] @@ execute_write(db, query, params)}
      \cup {[sql |-> query, params |-> params, ok |-> FALSE, err |-> f,
             db |-> db] : f \in DbFaults}

Logged(r) == <<[sql |-> r.sql, params |-> r.params, ok |-> r.ok]>>

\* slot p can take the next tool call
Ready(p) == pc[p] \in {"idle", "done"} /\ calls < MaxCalls

\* the transport dispatches an invocation of handler t to slot p
Invoke(p, t, a, out, l) ==
    /\ tool' = [tool EXCEPT ![p] = t]
    /\ args' = [args EXCEPT ![p] = a]
    /\ pc' = [pc EXCEPT ![p] = out.pc]
    /\ result' = [result EXCEPT ![p] = out.result]
    /\ loc' = [loc EXCEPT ![p] = l]
    /\ executed' = [executed EXCEPT ![p] = <<>>]
    /\ prompts' = [prompts EXCEPT ![p] = <<>>]
    /\ calls' = calls + 1
    /\ before' = [before EXCEPT ![p] = db]
    /\ UNCHANGED db

\* the invocation in slot p runs from one await point to the next
Advance(p, out, l, db2, stmts, sent) ==
    /\ pc' = [pc EXCEPT ![p] = out.pc]
    /\ result' = [result EXCEPT ![p] = out.result]
    /\ loc' = [loc EXCEPT ![p] = l]
    /\ db' = db2
    /\ executed' = [executed EXCEPT ![p] = @ \o stmts]
    /\ prompts' = [prompts EXCEPT ![p] = @ \o sent]
    /\ UNCHANGED <<before, tool, args, calls>>

(***************************************************************************)
(* query_database                                                          *)
(***************************************************************************)
query_database(p) ==
    /\ Ready(p)
    /\ \E sql \in SqlArgs :
           Invoke(p, "query_database", [sql |-> sql],
                  IF ~SelectGate(sql) THEN Returned("Error: Only SELECT queries are allowed for safety reasons.")
                  ELSE Continue("query_exec"),
                  NoArgs)

\* seeded fault: the statement is trimmed before it is handed over
query_database_call_trimmed(sql) == ReadOutcomes(strip(sql))

\* results = await db_manager.execute_query(sql)
query_database_call(sql) == ReadOutcomes(sql)

query_exec(p) ==
    /\ pc[p] = "query_exec"
    /\ \E r \in query_database_call(args[p].sql) :
          Advance(p,
                  IF r.ok THEN Returned(query_database_format(r.results))
                  ELSE query_database_except(r.err),
                  [results |-> r.results], r.db, Logged(r), <<>>)

(***************************************************************************)
(* insert_sample_data                                                      *)
(***************************************************************************)
insert_sample_data(p) ==
    /\ Ready(p)
    /\ Invoke(p, "insert_sample_data", NoArgs, Continue("insert_write"), [i |-> 1])

insert_write(p) ==
    /\ pc[p] = "insert_write"
    /\ LET w == SampleWrites[loc[p].i] IN
       \E r \in WriteOutcomes(w.sql, w.params) :
          Advance(p,
                  IF ~r.ok THEN insert_sample_data_except(r.err)
                  ELSE IF loc[p].i = Len(SampleWrites) THEN Returned("Sample data inserted successfully!")
                  ELSE Continue("insert_write"),
                  [i |-> loc[p].i + 1], r.db, Logged(r), <<>>)

(***************************************************************************)
(* create_table                                                            *)
(***************************************************************************)
create_table(p) ==
    /\ Ready(p)
    /\ \E a \in CreateArgs :
           Invoke(p, "create_table", a,
                  IF ~CreateGate(a.schema_sql) THEN Returned("Error: Only CREATE TABLE statements are allowed.")
                  ELSE Continue("create_exec"),
                  NoArgs)

\* await db_manager.execute_write(schema_sql)
create_table_call(schema_sql) == WriteOutcomes(schema_sql, <<>>)

create_exec(p) ==
    /\ pc[p] = "create_exec"
    /\ \E r \in create_table_call(args[p].schema_sql) :
          Advance(p,
                  IF r.ok
                  THEN Returned("Table '" \o args[p].table_name
                                  \o "' created successfully!")
                  ELSE create_table_except(r.err),
                  NoArgs, r.db, Logged(r), <<>>)

(***************************************************************************)
(* analyze_data_with_llm                                                   *)
(***************************************************************************)
analyze_data_with_llm(p) ==
    /\ Ready(p)
    /\ \E t \in TableArgs, q \in QuestionArgs, m \in ModelArgs :
           Invoke(p, "analyze_data_with_llm",
                  [table_name |-> t, question |-> q, model |-> m],
                  Continue("ad_schema"), NoArgs)

ad_schema(p) ==
    /\ pc[p] = "ad_schema"
    /\ \E r \in ReadOutcomes(schema_query(args[p].table_name)) :
          Advance(p,
                  IF r.ok THEN Continue("ad_data")
                  ELSE analyze_data_with_llm_except(r.err),
                  [schema_results |-> r.results], r.db, Logged(r), <<>>)

ad_data(p) ==
    /\ pc[p] = "ad_data"
    /\ \E r \in ReadOutcomes(data_query(args[p].table_name)) :
          Advance(p,
                  IF r.ok THEN Continue("ad_llm")
                  ELSE analyze_data_with_llm_except(r.err),
                  [schema_results |-> loc[p].schema_results,
                   data_results |-> r.results],
                  r.db, Logged(r), <<>>)

\* one ollama_client.generate call: the text it returns, and the completion
\* it asked for with what llm.acomplete answered or raised
Generated(model, prompt) ==
    {[text |-> generate(o),
      sent |-> <<[model |-> model, prompt |-> prompt, ok |-> o.ok,
                  reply |-> o.text]>>] :
        o \in LlmOutcomes}

ad_llm(p) ==
    /\ pc[p] = "ad_llm"
    /\ \E g \in Generated(args[p].model,
                           analyze_data_prompt(args[p].table_name,
                                               loc[p].schema_results,
                                               loc[p].data_results,
                                               args[p].question)) :
          Advance(p, Returned(g.text), loc[p], db, <<>>, g.sent)

(***************************************************************************)
(* chat_with_ollama, chat_with_context, list_ollama_models                 *)
(***************************************************************************)
chat_with_ollama(p) ==
    /\ Ready(p)
    /\ \E t \in PromptArgs, m \in ChatModelArgs :
           Invoke(p, "chat_with_ollama", [prompt |-> t, model |-> m],
                  Continue("chat_llm"), NoArgs)

chat_llm(p) ==
    /\ pc[p] = "chat_llm"
    /\ \E g \in Generated(args[p].model, args[p].prompt) :
          Advance(p, Returned(g.text), loc[p], db, <<>>, g.sent)

chat_with_context(p) ==
    /\ Ready(p)
    /\ \E t \in PromptArgs, c \in ContextArgs, m \in ChatModelArgs :
           Invoke(p, "chat_with_context",
                  [message |-> t, context |-> c, model |-> m],
                  Continue("context_llm"), NoArgs)

context_llm(p) ==
    /\ pc[p] = "context_llm"
    /\ \E g \in Generated(args[p].model,
                           chat_prompt(args[p].message, args[p].context)) :
          Advance(p, Returned(g.text), loc[p], db, <<>>, g.sent)

list_ollama_models(p) ==
    /\ Ready(p)
    /\ Invoke(p, "list_ollama_models", NoArgs, Continue("list_tags"), NoArgs)

list_tags(p) ==
    /\ pc[p] = "list_tags"
    /\ \E o \in TagsOutcomes :
          Advance(p, Returned(models_text(list_models(o))),
                  [models |-> list_models(o)], db, <<>>, <<>>)

(***************************************************************************)
(* get_database_schema, as a tool and as called by the two LlamaIndex      *)
(* tools                                                                   *)
(***************************************************************************)
get_database_schema(p) ==
    /\ Ready(p)
    /\ Invoke(p, "get_database_schema", NoArgs, Continue("schema_tables"), NoArgs)

\* where the text get_database_schema returns goes
SchemaExit(p, text) ==
    CASE tool[p] = "get_database_schema" -> Returned(text)
      [] tool[p] = "analyze_database_with_llamaindex" -> Continue("adb_tables")
      [] tool[p] = "generate_sql_with_llamaindex" -> Continue("gen_llm")

NamesOf(results) == [i \in 1..Len(results) |-> DictGet(results[i], "name").s]

schema_tables(p) ==
    /\ pc[p] = "schema_tables"
    /\ \E r \in ReadOutcomes(tables_query) :
          LET text == IF ~r.ok THEN get_database_schema_except(r.err).result
                      ELSE json_dumps(DictV(<<>>, <<>>))
          IN  Advance(p,
                      IF r.ok /\ r.results # <<>> THEN Continue("schema_pragma")
                      ELSE SchemaExit(p, text),
                      [tables |-> NamesOf(r.results), i |-> 1,
                       info |-> DictV(<<>>, <<>>), schema |-> <<>>,
                       schema_info |-> text],
                      r.db, Logged(r), <<>>)

schema_pragma(p) ==
    /\ pc[p] = "schema_pragma"
    /\ \E r \in ReadOutcomes(schema_query(loc[p].tables[loc[p].i])) :
          LET text == IF ~r.ok THEN get_database_schema_except(r.err).result
                      ELSE ""
          IN  Advance(p,
                      IF r.ok THEN Continue("schema_count")
                      ELSE SchemaExit(p, text),
                      [loc[p] EXCEPT !.schema = r.results, !.schema_info = text],
                      r.db, Logged(r), <<>>)

schema_count(p) ==
    /\ pc[p] = "schema_count"
    /\ \E r \in ReadOutcomes(count_query(loc[p].tables[loc[p].i])) :
          LET table_name == loc[p].tables[loc[p].i]
              row_count == IF r.results # <<>>
                           THEN DictGet(r.results[1], "count") ELSE IntV(0)
              info == DictPut(loc[p].info, table_name,
                              DictV(<<"columns", "row_count">>,
                                    <<ListV(loc[p].schema), row_count>>))
              last == loc[p].i = Len(loc[p].tables)
              text == IF ~r.ok THEN get_database_schema_except(r.err).result
                      ELSE IF last THEN json_dumps(info) ELSE ""
          IN  Advance(p,
                      IF r.ok /\ ~last THEN Continue("schema_pragma")
                      ELSE SchemaExit(p, text),
                      IF r.ok
                      THEN [loc[p] EXCEPT !.info = info, !.i = @ + 1,
                                          !.schema_info = text]
                      ELSE [loc[p] EXCEPT !.schema_info = text],
                      r.db, Logged(r), <<>>)

(***************************************************************************)
(* analyze_database_with_llamaindex                                        *)
(***************************************************************************)
analyze_database_with_llamaindex(p) ==
    /\ Ready(p)
    /\ \E q \in QuestionArgs, m \in ModelArgs :
           Invoke(p, "analyze_database_with_llamaindex",
                  [question |-> q, model |-> m],
                  Continue("schema_tables"), NoArgs)

adb_tables(p) ==
    /\ pc[p] = "adb_tables"
    /\ \E r \in ReadOutcomes(tables_query) :
          Advance(p,
                  IF ~r.ok THEN analyze_database_with_llamaindex_except(r.err)
                  ELSE IF r.results = <<>> THEN Continue("adb_llm")
                  ELSE Continue("adb_sample"),
                  [schema_info |-> loc[p].schema_info,
                   tables |-> NamesOf(r.results), i |-> 1,
                   all_data |-> DictV(<<>>, <<>>)],
                  r.db, Logged(r), <<>>)

adb_sample(p) ==
    /\ pc[p] = "adb_sample"
    /\ \E r \in ReadOutcomes(sample_query(loc[p].tables[loc[p].i])) :
          Advance(p,
                  IF ~r.ok THEN analyze_database_with_llamaindex_except(r.err)
                  ELSE IF loc[p].i = Len(loc[p].tables) THEN Continue("adb_llm")
                  ELSE Continue("adb_sample"),
                  IF r.ok
                  THEN [loc[p] EXCEPT
                          !.all_data = DictPut(@, loc[p].tables[loc[p].i],
                                               ListV(r.results)),
                          !.i = @ + 1]
                  ELSE loc[p],
                  r.db, Logged(r), <<>>)

adb_llm(p) ==
    /\ pc[p] = "adb_llm"
    /\ \E g \in Generated(args[p].model,
                           analyze_database_prompt(
                               analyze_database_context(loc[p].schema_info,
                                                        loc[p].all_data),
                               args[p].question)) :
          Advance(p, Returned(g.text), loc[p], db, <<>>, g.sent)

(***************************************************************************)
(* generate_sql_with_llamaindex                                            *)
(***************************************************************************)
generate_sql_with_llamaindex(p) ==
    /\ Ready(p)
    /\ \E d \in DescriptionArgs, m \in ModelArgs :
           Invoke(p, "generate_sql_with_llamaindex",
                  [description |-> d, model |-> m],
                  Continue("schema_tables"), NoArgs)

gen_llm(p) ==
    /\ pc[p] = "gen_llm"
    /\ \E g \in Generated(args[p].model,
                           generate_sql_prompt(loc[p].schema_info,
                                               args[p].description)) :
          Advance(p, Returned(generated_sql_text(strip_code_fence(g.text))),
                  loc[p], db, <<>>, g.sent)

(***************************************************************************)
(* The server: the transport awaits each tool call before the next         *)
(***************************************************************************)
Handlers(p) ==
    \/ query_database(p)
    \/ query_exec(p)
    \/ insert_sample_data(p)
    \/ insert_write(p)
    \/ create_table(p)
    \/ create_exec(p)
    \/ analyze_data_with_llm(p)
    \/ ad_schema(p)
    \/ ad_data(p)
    \/ ad_llm(p)
    \/ chat_with_ollama(p)
    \/ chat_llm(p)
    \/ chat_with_context(p)
    \/ context_llm(p)
    \/ list_ollama_models(p)
    \/ list_tags(p)
    \/ get_database_schema(p)
    \/ schema_tables(p)
    \/ schema_pragma(p)
    \/ schema_count(p)
    \/ analyze_database_with_llamaindex(p)
    \/ adb_tables(p)
    \/ adb_sample(p)
    \/ adb_llm(p)
    \/ generate_sql_with_llamaindex(p)
    \/ gen_llm(p)

Next == \E p \in Serial : Handlers(p)

Spec == Init /\ [][Next]_vars

\* sub in s
contains(s, sub) ==
    \E i \in 1..(Len(s) - Len(sub) + 1) : SubSeq(s, i, i + Len(sub) - 1) = sub

(***************************************************************************)
(* Properties                                                              *)
(***************************************************************************)
SameLetter(c, u) ==
    c = u \/ \E i \in 1..Len(UpperLetters) :
                 Char(UpperLetters, i) = u /\ Char(LowerLetters, i) = c

\* s, after its leading whitespace, begins with word in upper or lower case
LeadingWord(s, word) ==
    \E k \in 0..Len(s) :
        /\ \A i \in 1..k : Char(s, i) \in {" ", "\n", "\t", "\r", "\f"}
        /\ k + Len(word) <= Len(s)
        /\ \A i \in 1..Len(word) : SameLetter(Char(s, k + i), Char(word, i))

Admitted(p) ==
    \/ tool[p] = "query_database" /\ LeadingWord(args[p].sql, "SELECT")
    \/ tool[p] = "create_table" /\ LeadingWord(args[p].schema_sql, "CREATE TABLE")

Rejected(p) ==
    \/ tool[p] = "query_database" /\ ~LeadingWord(args[p].sql, "SELECT")
    \/ tool[p] = "create_table" /\ ~LeadingWord(args[p].schema_sql, "CREATE TABLE")

\* C1: query_database hands its statement to the database if and only if the
\* statement, trimmed and upper-cased, starts with SELECT; for every other
\* statement it returns the fixed text about SELECT queries only.
C1_SelectGate ==
    \A p \in Procs :
        tool[p] = "query_database" =>
            /\ pc[p] = "query_exec" => LeadingWord(args[p].sql, "SELECT")
            /\ pc[p] = "done" =>
                  /\ executed[p] # <<>> <=> LeadingWord(args[p].sql, "SELECT")
                  /\ ~LeadingWord(args[p].sql, "SELECT") =>
                        result[p] = "Error: Only SELECT queries are allowed for safety reasons."

\* a statement with leading blanks and a trailing newline went to the database
C1_Witness ==
    \E p \in Procs :
        /\ tool[p] = "query_database" /\ pc[p] = "done"
        /\ args[p].sql = "  SELECT * FROM orders\n"
        /\ Len(executed[p]) = 1
        /\ executed[p][1].ok

\* C2: create_table issues a database write if and only if schema_sql, trimmed
\* and upper-cased, starts with CREATE TABLE; for every other schema_sql the
\* returned text contains "Only CREATE TABLE statements are allowed" and the
\* tables of the database are as they were.
C2_CreateGate ==
    \A p \in Procs :
        tool[p] = "create_table" =>
            /\ pc[p] = "create_exec" => LeadingWord(args[p].schema_sql, "CREATE TABLE")
            /\ pc[p] = "done" =>
                  /\ executed[p] # <<>> <=> LeadingWord(args[p].schema_sql, "CREATE TABLE")
                  /\ ~LeadingWord(args[p].schema_sql, "CREATE TABLE") =>
                        /\ contains(result[p], "Only CREATE TABLE statements are allowed")
                        /\ db.master = before[p].master

\* DROP TABLE users was refused and the users table is still there
C2_Witness ==
    \E p \in Procs :
        /\ tool[p] = "create_table" /\ pc[p] = "done"
        /\ args[p].schema_sql = "DROP TABLE users"
        /\ executed[p] = <<>>
        /\ \E i \in 1..Len(db.master) : db.master[i].name = "users"

\* C3: a statement admitted by either gate is handed to the database exactly
\* as the caller supplied it: not trimmed, not upper-cased, not cut at ';'.
C3_ForwardedVerbatim ==
    \A p \in Procs :
        /\ tool[p] = "query_database" =>
              \A i \in 1..Len(executed[p]) :
                  executed[p][i].sql = args[p].sql /\ executed[p][i].params = <<>>
        /\ tool[p] = "create_table" =>
              \A i \in 1..Len(executed[p]) :
                  executed[p][i].sql = args[p].schema_sql /\ executed[p][i].params = <<>>
        /\ Admitted(p) /\ pc[p] = "done" => Len(executed[p]) = 1

\* the stacked statement reached the database whole
C3_Witness ==
    \E p \in Procs :
        /\ tool[p] = "query_database" /\ pc[p] = "done"
        /\ args[p].sql = "SELECT 1; DROP TABLE users"
        /\ Len(executed[p]) = 1
        /\ executed[p][1].sql = "SELECT 1; DROP TABLE users"
        /\ result[p] = "Database error: You can only execute one statement at a time."

\* C4: a gate rejection has no side effect and never raises: no statement is
\* executed, the LLM is not contacted, the database is unchanged, and the call
\* returns the fixed advisory text as a normal result.
C4_RejectionIsPure ==
    \A p \in Procs :
        Rejected(p) =>
            /\ pc[p] = "done"
            /\ executed[p] = <<>>
            /\ prompts[p] = <<>>
            /\ db = before[p]
            /\ result[p] = IF tool[p] = "query_database"
                           THEN "Error: Only SELECT queries are allowed for safety reasons."
                           ELSE "Error: Only CREATE TABLE statements are allowed."

\* a rejected UPDATE after sample data was inserted: the rows are still there
C4_Witness ==
    \E p \in Procs :
        /\ tool[p] = "query_database" /\ pc[p] = "done"
        /\ args[p].sql = "UPDATE users SET age = 100"
        /\ result[p] = "Error: Only SELECT queries are allowed for safety reasons."
        /\ \E i \in 1..Len(db.master) :
              db.master[i].name = "users" /\ Len(db.master[i].rows) = 2

\* the texts the LLM can return, as returned and as cleaned of their fence
LlmTexts == LlmReplies \cup {strip_code_fence(t) : t \in LlmReplies}

\* C5: the database changes only in a step of insert_sample_data or
\* create_table; every other tool leaves it exactly as it found it, and no
\* text returned by the LLM is ever executed as SQL.
C5_OnlyWritersChange ==
    /\ [][db' # db =>
            \E p \in Procs :
                /\ executed'[p] # executed[p]
                /\ tool[p] \in {"insert_sample_data", "create_table"}]_vars
    /\ [](\A p \in Procs :
            \A i \in 1..Len(executed[p]) : executed[p][i].sql \notin LlmTexts)

\* the LLM answered DROP TABLE products, the tool returned it as text, and the
\* products table is still in the database
C5_Witness ==
    \E p \in Procs :
        /\ tool[p] = "generate_sql_with_llamaindex" /\ pc[p] = "done"
        /\ contains(result[p], "DROP TABLE products")
        /\ db = before[p]
        /\ \E i \in 1..Len(db.master) : db.master[i].name = "products"

\* a database or LLM call of the invocation in slot p failed
Failed(p) ==
    \/ \E i \in 1..Len(executed[p]) : ~executed[p][i].ok
    \/ \E i \in 1..Len(prompts[p]) : ~prompts[p][i].ok

\* C6: every invocation of a tool handler ends by returning a text: whichever
\* database or LLM call fails, at whichever step, no exception escapes.
C6_AlwaysReturnsText ==
    \A p \in Procs :
        /\ pc[p] # "raised"
        /\ Failed(p) =>
              \/ pc[p] = "done"
              \/ /\ tool[p] \in {"analyze_database_with_llamaindex",
                                 "generate_sql_with_llamaindex"}
                 /\ pc[p] \in {"adb_tables", "adb_sample", "adb_llm", "gen_llm"}

\* the third write of insert_sample_data failed and the handler returned
C6_Witness ==
    \E p \in Procs :
        /\ tool[p] = "insert_sample_data" /\ pc[p] = "done"
        /\ Len(executed[p]) = 3 /\ ~executed[p][3].ok
        /\ result[p] = "Error inserting sample data: database is locked"

IsErrorText(t) == startswith(t, "Database error:") \/ startswith(t, "Error")

\* C7: whenever a database call or an LLM call fails during a tool
\* invocation, the text the tool returns begins with an error category label.
C7_FailureIsLabelled ==
    \A p \in Procs : pc[p] = "done" /\ Failed(p) => IsErrorText(result[p])

\* C8: every tool invocation is all-or-nothing with respect to the database:
\* an invocation that returns an error text leaves the database as it was
\* when the invocation began.
C8_AllOrNothing ==
    \A p \in Serial : pc[p] = "done" /\ IsErrorText(result[p]) => db = before[p]

\* C9: no collaborator call is retried: an invocation asks for at most one
\* LLM completion, and a database call that failed is not issued again.
C9_NoRetry ==
    \A p \in Procs :
        /\ Len(prompts[p]) <= 1
        /\ \A i, j \in 1..Len(executed[p]) :
              i < j /\ ~executed[p][i].ok =>
                  executed[p][j].sql # executed[p][i].sql

ScalarText(v) ==
    CASE v.k = "int"  -> IntToText(v.i)
      [] v.k = "text" -> "\"" \o JsonEscape(v.s) \o "\""
      [] v.k = "null" -> "null"
      [] OTHER        -> v.s

\* the texts of q joined by sep
RECURSIVE Joined(_, _)
Joined(q, sep) ==
    IF Len(q) = 1 THEN q[1] ELSE q[1] \o sep \o Joined(Tail(q), sep)

\* a JSON array of one object per row, each keyed by the column names
ArrayText(cols, rows) ==
    LET member(r, c) == "    \"" \o cols[c] \o "\": " \o ScalarText(rows[r][c])
        object(r) == "  {\n" \o Joined([c \in 1..Len(cols) |-> member(r, c)], ",\n")
                       \o "\n  }"
    IN  "[\n" \o Joined([r \in 1..Len(rows) |-> object(r)], ",\n") \o "\n]"

\* the text r, the database's answer, is to be returned as
AnswerText(text, r) ==
    /\ text = "Query executed successfully but returned no results." <=> r.rows = <<>>
    /\ r.rows # <<>> => text = ArrayText(r.cols, r.rows)

\* C10: for an admitted query that the database executes without error,
\* query_database returns the no-results text exactly when the result has
\* zero rows, and otherwise a JSON array with one object per result row, in
\* the database's row order, keyed by column name.
C10_ResultFormat ==
    \A p \in Serial :
        /\ tool[p] = "query_database" /\ pc[p] = "done"
        /\ Len(executed[p]) = 1 /\ executed[p][1].ok
        => AnswerText(result[p], sqlite_execute(before[p], args[p].sql, <<>>))

\* both inserted users came back, John Doe before Jane Smith
C10_Witness ==
    \E p \in Procs :
        /\ tool[p] = "query_database" /\ pc[p] = "done"
        /\ args[p].sql = "SELECT * FROM users"
        /\ Len(loc[p].results) = 2
        /\ startswith(result[p], "[\n  {\n    \"id\": 1,\n    \"name\": \"John Doe\",")
        /\ contains(result[p], "},\n  {\n    \"id\": 2,\n    \"name\": \"Jane Smith\",")

\* the tables of a database, in sqlite_master order
Tables(d) == SelectSeq(d.master, LAMBDA e : e.type = "table")

\* the tables the application created: those of init_db and of create_table,
\* not SQLite's own sqlite_sequence
AppTables(d) == {e.name : e \in SeqRange(Tables(d))} \ {"sqlite_sequence"}

\* the top-level keys of a JSON object rendered with indent=2: the names
\* quoted at an indentation of exactly two blanks
TopLevelKeys(text) ==
    {SubSeq(text, i + 4,
            Min({j \in (i + 4)..Len(text) : Char(text, j) = "\""}) - 1) :
        i \in {k \in 1..(Len(text) - 3) : SubSeq(text, k, k + 3) = "\n  \""}}

\* the invocation of get_database_schema in slot p returned a schema
SchemaReturned(p) ==
    /\ tool[p] = "get_database_schema" /\ pc[p] = "done"
    /\ ~startswith(result[p], "Error getting database schema:")

\* C11: the JSON returned by get_database_schema has as top-level keys exactly
\* the tables the application created and no other key, and every key maps to
\* an object with an integer row_count and a non-empty columns list.
C11_SchemaKeys ==
    \A p \in Serial :
        SchemaReturned(p) =>
            /\ result[p] = json_dumps(loc[p].info)
            /\ TopLevelKeys(result[p]) = AppTables(db)
            /\ \A i \in 1..Len(loc[p].info.keys) :
                  /\ DictGet(loc[p].info.vals[i], "row_count").k = "int"
                  /\ DictGet(loc[p].info.vals[i], "columns").items # <<>>

\* C12: the schema is never cached: a get_database_schema call that runs with
\* no other invocation in progress and whose database calls are not refused
\* below SQL reports every table of the database with the number of rows the
\* table holds at that moment.
C12_SchemaIsLive ==
    \A p \in Serial :
        /\ tool[p] = "get_database_schema" /\ pc[p] = "done"
        /\ result[p] \notin {get_database_schema_except(f).result : f \in DbFaults}
        => /\ result[p] = json_dumps(loc[p].info)
           /\ \A e \in SeqRange(Tables(db)) :
                 \E i \in 1..Len(loc[p].info.keys) :
                     /\ loc[p].info.keys[i] = e.name
                     /\ DictGet(loc[p].info.vals[i], "row_count") = IntV(Len(e.rows))

\* C13: chat_with_context asks one completion; the prompt is exactly the
\* message when the context is empty, and otherwise holds "Context: <context>"
\* and, after it, "User: <message>"; what the LLM answered is returned
\* unchanged.
C13_ChatWithContext ==
    \A p \in Serial :
        tool[p] = "chat_with_context" /\ pc[p] = "done" =>
            /\ Len(prompts[p]) = 1
            /\ LET sent == prompts[p][1].prompt
                   c == "Context: " \o args[p].context
                   u == "User: " \o args[p].message
               IN  IF args[p].context = ""
                   THEN sent = args[p].message
                   ELSE \E i \in 1..(Len(sent) - Len(c) + 1) :
                            /\ SubSeq(sent, i, i + Len(c) - 1) = c
                            /\ \E j \in (i + Len(c))..(Len(sent) - Len(u) + 1) :
                                   SubSeq(sent, j, j + Len(u) - 1) = u
            /\ prompts[p][1].ok => result[p] = prompts[p][1].reply

C13_Witness ==
    \E p \in Serial :
        /\ tool[p] = "chat_with_context" /\ pc[p] = "done"
        /\ args[p].context = "X" /\ args[p].message = "Hello"
        /\ prompts[p] # <<>> /\ prompts[p][1].ok
        /\ result[p] = "Mock LLM response"

(***************************************************************************)
(* The clean-up of the generated SQL, over many replies of the LLM        *)
(***************************************************************************)
MaxSqlLen == 3

SqlChars == {"a", " ", "\n", Tick}

RECURSIVE Strings(_)
Strings(n) ==
    IF n = 0 THEN {""}
    ELSE Strings(n - 1) \cup {s \o c : s \in Strings(n - 1), c \in SqlChars}

\* SQL texts without leading or trailing whitespace
SqlTexts == {s \in Strings(MaxSqlLen) : strip(s) = s}

Blanks == {"", " ", "\n "}

\* what the LLM can reply: a text in a ```sql fence, or the bare text, with
\* whitespace around it; or an opening fence and whatever follows it
FenceResponses ==
    {pre \o Fence \o "sql\n" \o q \o "\n" \o Fence \o post :
        pre \in Blanks, q \in SqlTexts, post \in Blanks}
      \cup {pre \o q \o post : pre \in Blanks, q \in SqlTexts, post \in Blanks}
      \cup {Fence \o tag \o body : tag \in {"", "sq", "sql"},
                                     body \in Strings(MaxSqlLen)}

\* get_database_schema on a database with no fault below SQL: table t, whose
\* schema query gave r1 and whose count query gave r2, after the tables
\* before it gave w
schema_table(w, t, r1, r2) ==
    IF w.text # "" THEN w
    ELSE IF ~r1.ok
    THEN [w EXCEPT !.text = get_database_schema_except(r1.err).result,
                   !.stmts = @ \o <<[sql |-> schema_query(t), params |-> <<>>,
                                     ok |-> FALSE]>>]
    ELSE IF ~r2.ok
    THEN [w EXCEPT !.text = get_database_schema_except(r2.err).result,
                   !.schema = r1.results,
                   !.stmts = @ \o <<[sql |-> schema_query(t), params |-> <<>>,
                                     ok |-> TRUE],
                                    [sql |-> count_query(t), params |-> <<>>,
                                     ok |-> FALSE]>>]
    ELSE [info |-> DictPut(w.info, t,
                           DictV(<<"columns", "row_count">>,
                                 <<ListV(r1.results),
                                   IF r2.results # <<>>
                                   THEN DictGet(r2.results[1], "count")
                                   ELSE IntV(0)>>)),
          text |-> "", schema |-> r1.results,
          stmts |-> w.stmts \o <<[sql |-> schema_query(t), params |-> <<>>,
                                  ok |-> TRUE],
                                 [sql |-> count_query(t), params |-> <<>>,
                                  ok |-> TRUE]>>]

\* the whole of it: the statements it executes, its locals at the end and the
\* text it returns
RECURSIVE schema_walk(_, _, _)
schema_walk(d, tables, i) ==
    IF i = 0
    THEN [info |-> DictV(<<>>, <<>>), text |-> "", schema |-> <<>>,
          stmts |-> <<[sql |-> tables_query, params |-> <<>>, ok |-> TRUE]>>]
    ELSE schema_table(schema_walk(d, tables, i - 1), tables[i],
                      execute_query(d, schema_query(tables[i]), <<>>),
                      execute_query(d, count_query(tables[i]), <<>>))

NestedSchema(d, tables, end) ==
    [stmts |-> end.stmts,
     loc |-> [tables |-> tables, i |-> Len(tables) + 1, info |-> end.info,
              schema |-> end.schema,
              schema_info |-> IF end.text # "" THEN end.text
                              ELSE json_dumps(end.info)]]

get_database_schema_of(d, tables) ==
    NestedSchema(d, tables, schema_walk(d, tables, Len(tables)))

InitialSchema ==
    get_database_schema_of(
        init_db([master |-> <<>>]),
        NamesOf(execute_query(init_db([master |-> <<>>]), tables_query, <<>>).results))

\* generate_sql_with_llamaindex on the new database, the schema read, awaiting
\* the completion the LLM is about to answer
FenceInit ==
    /\ db = init_db([master |-> <<>>])
    /\ before = [p \in Procs |-> db]
    /\ pc = [p \in Procs |-> IF p \in Serial THEN "gen_llm" ELSE "idle"]
    /\ tool = [p \in Procs |->
                 IF p \in Serial THEN "generate_sql_with_llamaindex" ELSE "none"]
    /\ loc = [p \in Procs |-> IF p \in Serial THEN InitialSchema.loc ELSE NoArgs]
    /\ executed = [p \in Procs |->
                     IF p \in Serial THEN InitialSchema.stmts ELSE <<>>]
    /\ result = [p \in Procs |-> ""]
    /\ calls = 1
    /\ \E d \in DescriptionArgs, m \in ModelArgs :
          /\ args = [p \in Procs |->
                       IF p \in Serial THEN [description |-> d, model |-> m]
                       ELSE NoArgs]
          /\ \E sent \in {[model |-> m,
                           prompt |-> generate_sql_prompt(
                               loc[CHOOSE p \in Serial : TRUE].schema_info, d),
                           ok |-> TRUE]} :
                \E r \in FenceResponses :
                   prompts = [p \in Procs |->
                                IF p \in Serial
                                THEN <<sent @@ [reply |-> r]>> ELSE <<>>]

\* the completion arrives: clean-up and return (lines 437-446)
gen_reply(p) ==
    /\ pc[p] = "gen_llm"
    /\ prompts[p] # <<>>
    /\ Advance(p,
               Returned(generated_sql_text(strip_code_fence(
                   generate([ok |-> prompts[p][1].ok,
                             text |-> prompts[p][1].reply])))),
               loc[p], db, <<>>, <<>>)

FenceSpec == FenceInit /\ [][\E p \in Serial : gen_reply(p)]_vars

\* C14: a reply of the form ```sql, newline, q, newline, ``` with whitespace
\* around it, q without leading or trailing whitespace, yields "Generated SQL
\* Query:" followed by exactly q; a reply that does not start with a fence
\* once trimmed yields exactly its trimmed text.
C14_FenceRoundTrip ==
    \A p \in Serial :
        tool[p] = "generate_sql_with_llamaindex" /\ pc[p] = "done" =>
            \A pre \in Blanks, q \in SqlTexts, post \in Blanks :
                LET reply == prompts[p][1].reply
                    text == "Generated SQL Query:\n" \o q
                              \o "\n\nTo execute this query, use the query_database tool."
                IN  /\ reply = pre \o Fence \o "sql\n" \o q \o "\n" \o Fence \o post
                         => result[p] = text
                    /\ (reply = pre \o q \o post
                          /\ ~(Len(q) >= 3 /\ SubSeq(q, 1, 3) = Fence))
                         => result[p] = text

C14_Witness ==
    \E p \in Serial :
        /\ tool[p] = "generate_sql_with_llamaindex" /\ pc[p] = "done"
        /\ prompts[p][1].reply = " " \o Fence \o "sql\na a\n" \o Fence \o "\n "
        /\ result[p] = "Generated SQL Query:\na a\n\nTo execute this query, use the query_database tool."

\* the prompt the tool assembles from its arguments a and the contents d of
\* the database when every database call answers from those contents
PromptOf(t, a, d, tables) ==
    CASE t = "chat_with_context" -> chat_prompt(a.message, a.context)
      [] t = "analyze_data_with_llm" ->
           analyze_data_prompt(
               a.table_name,
               execute_query(d, schema_query(a.table_name), <<>>).results,
               execute_query(d, data_query(a.table_name), <<>>).results,
               a.question)
      [] t = "analyze_database_with_llamaindex" ->
           analyze_database_prompt(
               analyze_database_context(
                   get_database_schema_of(d, tables).loc.schema_info,
                   DictV(tables,
                         [i \in 1..Len(tables) |->
                            ListV(execute_query(d, sample_query(tables[i]),
                                                <<>>).results)])),
               a.question)
      [] t = "generate_sql_with_llamaindex" ->
           generate_sql_prompt(get_database_schema_of(d, tables).loc.schema_info,
                               a.description)

\* C15: the prompt an LLM tool passes to the client is a function of the
\* tool, its arguments and the database contents: every invocation with the
\* same arguments on the same contents sends the same characters.
C15_PromptIsDeterministic ==
    \A p \in Serial :
        /\ tool[p] \in {"chat_with_context", "analyze_data_with_llm",
                        "analyze_database_with_llamaindex",
                        "generate_sql_with_llamaindex"}
        /\ prompts[p] # <<>>
        => prompts[p][1].prompt =
             PromptOf(tool[p], args[p], before[p],
                      NamesOf(execute_query(before[p], tables_query, <<>>).results))

(***************************************************************************)
(* The analysis tools on databases that hold many rows                     *)
(***************************************************************************)
MaxSamples == 6

\* the first n writes of repeated insert_sample_data invocations, each with
\* its own connection and commit, from the i-th on
RECURSIVE Sampled(_, _, _)
Sampled(d, i, n) ==
    IF i > n THEN d
    ELSE Sampled(execute_write(d, SampleWrites[((i - 1) % Len(SampleWrites)) + 1].sql,
                               SampleWrites[((i - 1) % Len(SampleWrites)) + 1].params).db,
                 i + 1, n)

\* the database of init_db after k successful invocations of insert_sample_data
SampleDb(k) == Sampled(init_db([master |-> <<>>]), 1, k * Len(SampleWrites))

GrownInit ==
    /\ db \in {SampleDb(k) : k \in 0..MaxSamples}
    /\ before = [p \in Procs |-> db]
    /\ pc = [p \in Procs |-> "idle"]
    /\ tool = [p \in Procs |-> "none"]
    /\ args = [p \in Procs |-> NoArgs]
    /\ loc = [p \in Procs |-> NoArgs]
    /\ result = [p \in Procs |-> ""]
    /\ executed = [p \in Procs |-> <<>>]
    /\ prompts = [p \in Procs |-> <<>>]
    /\ calls = 0

GrownSpec ==
    GrownInit /\ [][
    \E p \in Serial :
        \/ insert_sample_data(p)
        \/ insert_write(p)
        \/ analyze_data_with_llm(p)
        \/ ad_schema(p)
        \/ ad_data(p)
        \/ ad_llm(p)
        \/ analyze_database_with_llamaindex(p)
        \/ schema_tables(p)
        \/ schema_pragma(p)
        \/ schema_count(p)
        \/ adb_tables(p)
        \/ adb_sample(p)
        \/ adb_llm(p)
    ]_vars

\* the rows table name holds in database d
RowsOf(d, name) ==
    LET held == {e \in SeqRange(Tables(d)) : e.name = name}
    IN  IF held = {} THEN <<>> ELSE (CHOOSE e \in held : TRUE).rows

\* the first place sub stands in s (0: nowhere)
IndexOf(s, sub) ==
    LET at == {i \in 1..(Len(s) - Len(sub) + 1) : SubSeq(s, i, i + Len(sub) - 1) = sub}
    IN  IF at = {} THEN 0 ELSE Min(at)

\* how often sub stands in s from place a on
CountFrom(s, sub, a) ==
    Cardinality({i \in a..(Len(s) - Len(sub) + 1) : SubSeq(s, i, i + Len(sub) - 1) = sub})

RECURSIVE SumLens(_, _)
SumLens(vals, i) == IF i = 0 THEN 0 ELSE Len(vals[i].items) + SumLens(vals, i - 1)

\* C16: the sample-data block of a prompt is bounded: analyze_data_with_llm
\* embeds min(10, n) rows of a table of n rows, analyze_database_with_llamaindex
\* min(5, n) rows of every table.
C16_SampleIsBounded ==
    \A p \in Serial :
        prompts[p] # <<>> =>
            LET sent == prompts[p][1].prompt IN
            /\ tool[p] = "analyze_data_with_llm" =>
                 LET n == Len(RowsOf(before[p], args[p].table_name))
                     a == IndexOf(sent, "Here's a sample of the data:")
                 IN  /\ Len(loc[p].data_results) = Min({10, n})
                     /\ a > 0
                     /\ CountFrom(sent, "\n  {", a) = Min({10, n})
            /\ tool[p] = "analyze_database_with_llamaindex" =>
                 LET a == IndexOf(sent, "Sample Data:")
                     d == loc[p].all_data
                 IN  /\ \A i \in 1..Len(d.keys) :
                           Len(d.vals[i].items) = Min({5, Len(RowsOf(before[p], d.keys[i]))})
                     /\ {d.keys[i] : i \in 1..Len(d.keys)}
                          = {e.name : e \in SeqRange(Tables(before[p]))}
                     /\ a > 0
                     /\ CountFrom(sent, "\n    {", a) = SumLens(d.vals, Len(d.vals))

C16_Witness ==
    \E p \in Serial :
        /\ tool[p] = "analyze_data_with_llm" /\ pc[p] = "done"
        /\ args[p].table_name = "products"
        /\ Len(RowsOf(before[p], "products")) = 12
        /\ prompts[p] # <<>>
        /\ Len(loc[p].data_results) = 10

\* the names in the users table of database d, in rowid order
UserNames(d) ==
    LET found == execute_query(d, "SELECT * FROM users", <<>>).results
    IN  [i \in 1..Len(found) |-> DictGet(found[i], "name").s]

\* C19: from the database of init_db, after n >= 1 successful invocations of
\* insert_sample_data in a row the users table holds exactly John Doe and
\* Jane Smith, and the products table holds 2n rows: the database after k
\* such invocations holds 2k products, and every further successful
\* invocation leaves exactly the two users and adds two products.
C19_SampleDataRepeats ==
    /\ calls = 0 =>
          LET k == Len(RowsOf(db, "products")) \div 2
          IN  /\ db = SampleDb(k)
              /\ Len(RowsOf(db, "products")) = 2 * k
              /\ UserNames(db) = IF k = 0 THEN <<>> ELSE <<"John Doe", "Jane Smith">>
    /\ \A p \in Serial :
          /\ tool[p] = "insert_sample_data" /\ pc[p] = "done"
          /\ result[p] = "Sample data inserted successfully!"
          => /\ UserNames(db) = <<"John Doe", "Jane Smith">>
             /\ Len(RowsOf(db, "users")) = 2
             /\ Len(RowsOf(db, "products")) = Len(RowsOf(before[p], "products")) + 2

C19_Witness ==
    \E p \in Serial :
        /\ tool[p] = "insert_sample_data" /\ pc[p] = "done"
        /\ result[p] = "Sample data inserted successfully!"
        /\ Len(RowsOf(before[p], "products")) = 2
        /\ Len(RowsOf(db, "users")) = 2
        /\ Len(RowsOf(db, "products")) = 4

\* the texts of blocks stand in s one after the other, in this order, and
\* each of labels stands in s exactly once
InOrderOnce(s, blocks, labels) ==
    LET at == [i \in 1..Len(blocks) |-> IndexOf(s, blocks[i])]
    IN  /\ \A i \in 1..Len(blocks) : at[i] > 0
        /\ \A i \in 1..(Len(blocks) - 1) : at[i] + Len(blocks[i]) <= at[i + 1]
        /\ \A i \in 1..Len(labels) : CountFrom(s, labels[i], 1) = 1

\* C17: the sections of a prompt stand in a fixed order, each once: schema,
\* sample data, question, closing instruction in the two analysis tools;
\* schema, the user's description, closing instruction in
\* generate_sql_with_llamaindex.
C17_SectionOrder ==
    \A p \in Serial :
        prompts[p] # <<>> =>
            LET sent == prompts[p][1].prompt IN
            /\ tool[p] = "analyze_data_with_llm" =>
                 InOrderOnce(sent,
                     <<"with the following schema:\n        "
                         \o json_dumps(ListV(loc[p].schema_results)) \o "\n",
                       "Here's a sample of the data:\n        "
                         \o json_dumps(ListV(loc[p].data_results)) \o "\n",
                       "Question: " \o args[p].question \o "\n",
                       "make sure they are SELECT queries only.">>,
                     <<"with the following schema:", "Here's a sample of the data:",
                       "Question: ", "make sure they are SELECT queries only.">>)
            /\ tool[p] = "analyze_database_with_llamaindex" =>
                 InOrderOnce(sent,
                     <<"Database Schema:\n        " \o loc[p].schema_info \o "\n",
                       "Sample Data:\n        " \o json_dumps(loc[p].all_data) \o "\n",
                       "Question: " \o args[p].question \o "\n",
                       "ensure they are SELECT statements only.">>,
                     <<"Database Schema:", "Sample Data:", "Question: ",
                       "ensure they are SELECT statements only.">>)
            /\ tool[p] = "generate_sql_with_llamaindex" =>
                 InOrderOnce(sent,
                     <<"Database Schema:\n        " \o loc[p].schema_info \o "\n",
                       "User Request: " \o args[p].description \o "\n",
                       "Generate only a SELECT SQL query">>,
                     <<"Database Schema:", "User Request: ",
                       "Generate only a SELECT SQL query">>)

C17_Witness ==
    \E p \in Serial :
        /\ tool[p] = "generate_sql_with_llamaindex" /\ pc[p] = "done"
        /\ prompts[p] # <<>>
        /\ IndexOf(prompts[p][1].prompt, "\"users\": {") > 0
        /\ IndexOf(prompts[p][1].prompt, "\"users\": {")
             < IndexOf(prompts[p][1].prompt, "User Request: Find users older than 25")

\* C18: when create_table answers "Table '<table_name>' created
\* successfully!", the database holds a table of that name.
C18_CreatedTableExists ==
    \A p \in Serial :
        /\ tool[p] = "create_table" /\ pc[p] = "done"
        /\ result[p] = "Table '" \o args[p].table_name \o "' created successfully!"
        => \E e \in SeqRange(Tables(db)) : e.name = args[p].table_name

\* C20: chat_with_ollama asks the client for one completion, of exactly its
\* prompt by exactly its model, and returns the client's text unchanged; when
\* the completion fails the returned text contains "Error communicating with
\* Ollama".
C20_ChatWithOllama ==
    \A p \in Serial :
        tool[p] = "chat_with_ollama" =>
            /\ executed[p] = <<>>
            /\ pc[p] # "done" => prompts[p] = <<>>
            /\ pc[p] = "done" =>
                 /\ Len(prompts[p]) = 1
                 /\ prompts[p][1].model = args[p].model
                 /\ prompts[p][1].prompt = args[p].prompt
                 /\ prompts[p][1].ok => result[p] = prompts[p][1].reply
                 /\ ~prompts[p][1].ok =>
                       contains(result[p], "Error communicating with Ollama")

C20_Witness ==
    \E p \in Serial :
        /\ tool[p] = "chat_with_ollama" /\ pc[p] = "done"
        /\ args[p] = [prompt |-> "Hello", model |-> "gemma2"]
        /\ prompts[p] = <<[model |-> "gemma2", prompt |-> "Hello", ok |-> TRUE,
                           reply |-> "Mock LLM response"]>>
        /\ result[p] = "Mock LLM response"

\* one "\n- <name>" line per model, from the i-th on
RECURSIVE ModelLines(_, _)
ModelLines(models, i) ==
    IF i > Len(models) THEN ""
    ELSE "\n- " \o models[i] \o ModelLines(models, i + 1)

\* C21: list_ollama_models returns "Available Ollama models:" and one
\* "- <name>" line per listed model, in the listed order, when a model is
\* listed; it returns the "No models found..." text when none is listed and
\* when the request fails, because list_models turns a failure into [].
C21_ListModels ==
    /\ \A o \in TagsOutcomes :
          /\ ~o.ok => list_models(o) = <<>>
          /\ o.ok => list_models(o) = o.models
    /\ \A p \in Serial :
          tool[p] = "list_ollama_models" /\ pc[p] = "done" =>
              /\ loc[p].models \in {list_models(o) : o \in TagsOutcomes}
              /\ result[p] =
                   IF loc[p].models = <<>>
                   THEN "No models found. Make sure Ollama is running and has models installed."
                   ELSE "Available Ollama models:" \o ModelLines(loc[p].models, 1)

C21_Witness ==
    \E p \in Serial :
        /\ tool[p] = "list_ollama_models" /\ pc[p] = "done"
        /\ loc[p].models = <<"llama3.2", "gemma2">>
        /\ result[p] = "Available Ollama models:\n- llama3.2\n- gemma2"

\* C22: fence removal is by fixed offsets: with t the trimmed reply, the
\* extracted text is trim(t[6 .. len(t)-3]) when t starts with ```sql and
\* trim(t[3 .. len(t)-3]) when it starts with ``` only, whether or not t ends
\* with a fence; the step never raises, and extracts the empty text when t is
\* no longer than the two offsets together.
C22_FixedOffsets ==
    \A p \in Serial :
        tool[p] = "generate_sql_with_llamaindex" /\ prompts[p] # <<>> =>
            LET t == strip(prompts[p][1].reply)
                begins(w) == Len(t) >= Len(w) /\ SubSeq(t, 1, Len(w)) = w
                cut(k) == IF Len(t) - 3 <= k THEN ""
                          ELSE strip(SubSeq(t, k + 1, Len(t) - 3))
                wrapped(q) == "Generated SQL Query:\n" \o q
                                \o "\n\nTo execute this query, use the query_database tool."
            IN  /\ pc[p] \in {"gen_llm", "done"}
                /\ pc[p] = "done" =>
                     /\ begins(Fence \o "sql") => result[p] = wrapped(cut(6))
                     /\ begins(Fence) /\ ~begins(Fence \o "sql")
                          => result[p] = wrapped(cut(3))
                     /\ begins(Fence \o "sql") /\ Len(t) <= 9 => result[p] = wrapped("")
                     /\ begins(Fence) /\ ~begins(Fence \o "sql") /\ Len(t) <= 6
                          => result[p] = wrapped("")

C22_Witness ==
    \E p \in Serial :
        /\ tool[p] = "generate_sql_with_llamaindex" /\ pc[p] = "done"
        /\ prompts[p][1].reply = Fence \o "sql" \o "\naa"
        /\ result[p] = "Generated SQL Query:\n\n\nTo execute this query, use the query_database tool."

\* C26: analyze_data_with_llm calls the LLM only after its schema read and
\* then its data read have both succeeded, and at most once; for a table
\* that does not exist it returns a text that starts with "Error analyzing
\* data with LLM:" and the LLM is never called.
C26_LlmAfterReads ==
    \A p \in Serial :
        tool[p] = "analyze_data_with_llm" =>
            /\ Len(prompts[p]) <= 1
            /\ prompts[p] # <<>> =>
                 /\ Len(executed[p]) = 2
                 /\ executed[p][1].sql = "PRAGMA table_info(" \o args[p].table_name \o ")"
                 /\ executed[p][2].sql = "SELECT * FROM " \o args[p].table_name \o " LIMIT 10"
                 /\ executed[p][1].ok /\ executed[p][2].ok
            /\ (\E i \in 1..Len(executed[p]) : ~executed[p][i].ok) =>
                 /\ pc[p] = "done"
                 /\ prompts[p] = <<>>
                 /\ startswith(result[p], "Error analyzing data with LLM:")
            /\ (/\ pc[p] = "done"
                /\ \A e \in SeqRange(Tables(before[p])) :
                       upper(e.name) # upper(args[p].table_name))
                 => /\ prompts[p] = <<>>
                    /\ startswith(result[p], "Error analyzing data with LLM:")

C26_Witness ==
    \E p \in Serial :
        /\ tool[p] = "analyze_data_with_llm" /\ pc[p] = "done"
        /\ args[p].table_name = "missing"
        /\ Len(executed[p]) = 2 /\ executed[p][1].ok /\ ~executed[p][2].ok
        /\ prompts[p] = <<>>
        /\ result[p] = "Error analyzing data with LLM: no such table: missing"

\* table e of the database is still there in database d, with every row it
\* held, unchanged
Kept(e, d) ==
    \E f \in SeqRange(Tables(d)) :
        /\ f.name = e.name
        /\ f.cols = e.cols
        /\ Len(f.rows) >= Len(e.rows)
        /\ SubSeq(f.rows, 1, Len(e.rows)) = e.rows

\* C29 as stated: in every step every table that existed is still there and
\* every row it held is still there with unchanged values.
C29_OnlyGrowsAllTables ==
    [][\A e \in SeqRange(Tables(db)) : Kept(e, db')]_vars

\* C29: the database only grows: in every step every table the application
\* created is still there and every row it held is still there with
\* unchanged values; only the counters SQLite keeps in sqlite_sequence are
\* updated in place.
C29_OnlyGrows ==
    [][\A e \in SeqRange(Tables(db)) :
          e.name # "sqlite_sequence" => Kept(e, db')]_vars

C29_Witness ==
    \E p \in Serial :
        /\ tool[p] = "query_database" /\ pc[p] = "done"
        /\ args[p].sql = "DROP TABLE users"
        /\ Len(RowsOf(before[p], "users")) = 2
        /\ Len(RowsOf(db, "users")) = 2

(***************************************************************************)
(* DatabaseManager and OllamaLlamaIndexClient called directly, method by   *)
(* method, each method from one await to the next                          *)
(***************************************************************************)
\* a caller awaits execute_query, execute_write or init_db
dm_call(p) ==
    /\ Ready(p)
    /\ \E a \in {[method |-> "execute_write",
                  query |-> "INSERT INTO users (name, email, age) VALUES (?, ?, ?)",
                  params |-> <<TextV("User 1"), TextV("user1@example.com"), IntV(25)>>],
                 [method |-> "execute_write",
                  query |-> "INSERT INTO users (name, email, age) VALUES (?, ?, ?)",
                  params |-> <<TextV("User 2"), TextV("user1@example.com"), IntV(30)>>],
                 [method |-> "execute_write",
                  query |-> "INSERT INTO users (name) VALUES (?)",
                  params |-> <<TextV("User 3")>>],
                 [method |-> "execute_write",
                  query |-> "DELETE FROM missing", params |-> <<>>],
                 [method |-> "execute_query",
                  query |-> "SELECT * FROM users", params |-> <<>>],
                 [method |-> "execute_query",
                  query |-> "SELECT * FROM missing", params |-> <<>>],
                 [method |-> "init_db", query |-> "", params |-> <<>>]} :
          Invoke(p, a.method, [query |-> a.query, params |-> a.params],
                 Continue("connect"), [open |-> 0])

\* async with aiosqlite.connect(self.db_path) as db: the connection opens, or
\* connect raises and there is none
dm_connect(p) ==
    /\ pc[p] = "connect"
    /\ \/ Advance(p, Continue("execute"), [open |-> loc[p].open + 1], db, <<>>, <<>>)
       \/ \E f \in DbFaults :
             Advance(p, [pc |-> "raised", result |-> f], loc[p], db, <<>>, <<>>)

\* the body of the with block: the statements, and the commit of a write
dm_execute(p) ==
    /\ pc[p] = "execute"
    /\ \E r \in CASE tool[p] = "execute_query" -> ReadOutcomes(args[p].query)
                  [] tool[p] = "execute_write" ->
                       WriteOutcomes(args[p].query, args[p].params)
                  [] tool[p] = "init_db" ->
                       {[sql |-> "", params |-> <<>>, ok |-> TRUE, err |-> "",
                         db |-> init_db(db)]}
                         \cup {[sql |-> "", params |-> <<>>, ok |-> FALSE,
                                err |-> f, db |-> db] : f \in DbFaults} :
          Advance(p, Continue("exit"),
                  [open |-> loc[p].open, ok |-> r.ok, err |-> r.err],
                  r.db, Logged(r), <<>>)

\* seeded fault: a connection that is closed only when the body did not raise
dm_exit_on_success(p) ==
    /\ pc[p] = "exit"
    /\ Advance(p,
               IF loc[p].ok THEN Returned("") ELSE [pc |-> "raised", result |-> loc[p].err],
               [loc[p] EXCEPT !.open = IF loc[p].ok THEN @ - 1 ELSE @],
               db, <<>>, <<>>)

\* leaving the with block closes the connection, whether the body returned
\* or raised; then the method returns or the exception goes on
dm_exit(p) ==
    /\ pc[p] = "exit"
    /\ Advance(p,
               IF loc[p].ok THEN Returned("") ELSE [pc |-> "raised", result |-> loc[p].err],
               [loc[p] EXCEPT !.open = @ - 1],
               db, <<>>, <<>>)

\* os.getenv("OLLAMA_BASE_URL", "http://localhost:11434"), read at import
OLLAMA_BASE_URL(env) ==
    IF env.set THEN env.value ELSE "http://localhost:11434"

\* get_ollama_llm: the keyword arguments Ollama(...) is built with; a holds the
\* positional arguments given, the defaults fill the rest; request_timeout is
\* 60.0 seconds
get_ollama_llm(a, env) ==
    [model |-> IF Len(a) >= 1 THEN a[1] ELSE DEFAULT_MODEL,
     base_url |-> IF Len(a) >= 2 THEN a[2] ELSE OLLAMA_BASE_URL(env),
     request_timeout |-> 60]

\* a caller builds an LLM; the call has no await
llm_call(p) ==
    /\ Ready(p)
    /\ \E a \in {<<>>, <<"custom-model">>, <<"custom-model", "http://custom:8080">>},
          env \in {[set |-> FALSE, value |-> ""],
                   [set |-> TRUE, value |-> "http://ollama:11434"]} :
          Invoke(p, "get_ollama_llm", [positional |-> a, env |-> env],
                 Returned(""), get_ollama_llm(a, env))

RECURSIVE messages_prompt_terminated(_, _)
\* seeded fault: every line ended by a newline, the last one too
messages_prompt_terminated(messages, n) ==
    IF n = 0 THEN ""
    ELSE messages_prompt_terminated(messages, n - 1)
           \o messages[n].role \o ": " \o messages[n].content \o "\n"

RECURSIVE messages_prompt(_, _)
\* chat: "\n".join of the lines "<role>: <content>" of the first n messages
messages_prompt(messages, n) ==
    IF n = 0 THEN ""
    ELSE IF n = 1 THEN messages[1].role \o ": " \o messages[1].content
    ELSE messages_prompt(messages, n - 1)
           \o "\n" \o messages[n].role \o ": " \o messages[n].content

\* a caller awaits OllamaLlamaIndexClient.chat(model, messages); the client
\* was built with the default base URL
chat(p) ==
    /\ Ready(p)
    /\ \E m \in ChatModelArgs,
          ms \in {<<>>,
                  <<[role |-> "user", content |-> "Hello"]>>,
                  <<[role |-> "user", content |-> ""],
                    [role |-> "system", content |-> "a\nb"]>>,
                  <<[role |-> "user", content |-> "Hello"],
                    [role |-> "assistant", content |-> "Hi there!"],
                    [role |-> "user", content |-> "How are you?"]>>} :
          Invoke(p, "chat", [model |-> m, messages |-> ms],
                 Continue("acomplete"),
                 get_ollama_llm(<<m, OLLAMA_BASE_URL([set |-> FALSE, value |-> ""])>>,
                                [set |-> FALSE, value |-> ""]))

\* await llm.acomplete(prompt): the answer is returned, an exception becomes
\* the returned text
chat_acomplete(p) ==
    /\ pc[p] = "acomplete"
    /\ \E o \in LlmOutcomes :
          Advance(p,
                  Returned(IF o.ok THEN o.text
                           ELSE "Error in chat with Ollama via LlamaIndex: " \o o.text),
                  loc[p], db, <<>>,
                  <<[model |-> loc[p].model,
                     prompt |-> messages_prompt(args[p].messages, Len(args[p].messages)),
                     ok |-> o.ok, reply |-> o.text]>>)

ApiSpec ==
    Init /\ [][\E p \in Serial :
                  \/ dm_call(p)
                  \/ dm_connect(p)
                  \/ dm_execute(p)
                  \/ dm_exit(p)]_vars

\* OllamaLlamaIndexClient and get_ollama_llm called directly
ClientSpec ==
    Init /\ [][\E p \in Procs :
                  \/ llm_call(p)
                  \/ chat(p)
                  \/ chat_acomplete(p)]_vars

\* C23: a write the database rejects changes nothing: the step in which
\* execute_write raises, and the close that follows, leave the database
\* exactly as it was when the call began, with every row committed before.
C23_RejectedWrite ==
    [][\A p \in Procs :
          /\ tool'[p] = "execute_write"
          /\ pc'[p] # pc[p]
          /\ \/ pc'[p] = "raised"
             \/ pc'[p] = "exit" /\ ~loc'[p].ok
          => db' = db /\ db' = before'[p]]_vars

C23_Witness ==
    \E p \in Procs :
        /\ tool[p] = "execute_write" /\ pc[p] = "raised"
        /\ result[p] = "UNIQUE constraint failed: users.email"
        /\ Len(RowsOf(db, "users")) = 1
        /\ UserNames(db) = <<"User 1">>

\* C25: a method holds at most one connection, holds it only between its
\* connect and the end of its with block, and has closed it when it returns
\* and when it raises.
C25_ConnectionPerCall ==
    \A p \in Procs :
        tool[p] \in {"execute_query", "execute_write", "init_db"} =>
            /\ loc[p].open \in {0, 1}
            /\ loc[p].open = 1 <=> pc[p] \in {"execute", "exit"}
            /\ pc[p] \in {"done", "raised"} => loc[p].open = 0

C25_Witness ==
    \E p \in Procs :
        /\ tool[p] = "execute_query" /\ pc[p] = "raised"
        /\ result[p] = "no such table: missing"
        /\ Len(executed[p]) = 1
        /\ loc[p].open = 0

\* the place of the newline that ends line i of the flattened messages ms
RECURSIVE LineEnd(_, _)
LineEnd(ms, i) ==
    IF i = 0 THEN 0
    ELSE LineEnd(ms, i - 1) + Len(ms[i].role) + 2 + Len(ms[i].content) + 1

\* C24: chat flattens every message list to one prompt of the lines
\* "<role>: <content>", one per message in list order, joined by single
\* newlines with none before the first or after the last line, submits it in
\* exactly one completion call, and when that call fails returns a text that
\* holds "Error in chat with Ollama via LlamaIndex" and the exception's message
\* instead of raising.
C24_ChatFlattens ==
    \A p \in Procs :
        tool[p] = "chat" =>
            /\ pc[p] # "raised"
            /\ pc[p] = "acomplete" => prompts[p] = <<>>
            /\ pc[p] = "done" =>
                  LET ms == args[p].messages
                      n == Len(ms)
                  IN  /\ Len(prompts[p]) = 1
                      /\ Len(prompts[p][1].prompt)
                           = (IF n = 0 THEN 0 ELSE LineEnd(ms, n) - 1)
                      /\ \A i \in 1..n :
                            SubSeq(prompts[p][1].prompt,
                                   LineEnd(ms, i - 1) + 1, LineEnd(ms, i) - 1)
                              = ms[i].role \o ": " \o ms[i].content
                      /\ \A i \in 1..(n - 1) :
                            SubSeq(prompts[p][1].prompt,
                                   LineEnd(ms, i), LineEnd(ms, i)) = "\n"
                      /\ ~prompts[p][1].ok =>
                            /\ contains(result[p],
                                        "Error in chat with Ollama via LlamaIndex")
                            /\ contains(result[p], prompts[p][1].reply)

C24_Witness ==
    \E p \in Procs :
        /\ tool[p] = "chat"
        /\ pc[p] = "done"
        /\ Len(args[p].messages) = 3
        /\ prompts[p] = <<[model |-> "gemma2",
                           prompt |-> "user: Hello\nassistant: Hi there!\nuser: How are you?",
                           ok |-> FALSE,
                           reply |-> "All connection attempts failed"]>>
        /\ result[p] = "Error in chat with Ollama via LlamaIndex: All connection attempts failed"

\* C30: get_ollama_llm without arguments builds the LLM with model "gemma3n",
\* base URL "http://localhost:11434" when OLLAMA_BASE_URL is unset, and request
\* timeout 60.0; with (model, base_url) it builds it with exactly those two
\* values and the same timeout.
C30_DefaultLlm ==
    \A p \in Procs :
        tool[p] = "get_ollama_llm" /\ pc[p] = "done" =>
            /\ Len(args[p].positional) = 0 /\ ~args[p].env.set =>
                  loc[p] = [model |-> "gemma3n",
                            base_url |-> "http://localhost:11434",
                            request_timeout |-> 60]
            /\ Len(args[p].positional) = 2 =>
                  loc[p] = [model |-> args[p].positional[1],
                            base_url |-> args[p].positional[2],
                            request_timeout |-> 60]

\* C30 with the model the code names: the rest of the sentence holds
C30_DefaultLlmOfCode ==
    \A p \in Procs :
        tool[p] = "get_ollama_llm" /\ pc[p] = "done" =>
            /\ Len(args[p].positional) = 0 /\ ~args[p].env.set =>
                  loc[p] = [model |-> "llama3.2",
                            base_url |-> "http://localhost:11434",
                            request_timeout |-> 60]
            /\ Len(args[p].positional) = 2 =>
                  loc[p] = [model |-> args[p].positional[1],
                            base_url |-> args[p].positional[2],
                            request_timeout |-> 60]

(***************************************************************************)
(* Two invocations dispatched side by side: the transport gives each slot  *)
(* one call of insert_sample_data or get_database_schema, and the calls    *)
(* interleave at their awaits                                              *)
(***************************************************************************)
ConcSpec ==
    Init /\ [][\E p \in Procs :
                  \/ tool[p] = "none" /\ insert_sample_data(p)
                  \/ insert_write(p)
                  \/ tool[p] = "none" /\ get_database_schema(p)
                  \/ schema_tables(p)
                  \/ schema_pragma(p)
                  \/ schema_count(p)]_vars

\* the emails of the users table, in the order SELECT * lists the rows
UserEmails(d) ==
    LET found == execute_query(d, "SELECT * FROM users", <<>>).results
    IN  [i \in 1..Len(found) |-> DictGet(found[i], "email").s]

\* the slots whose invocation is insert_sample_data
SampleCalls == {p \in Procs : tool[p] = "insert_sample_data"}

\* C27: insert_sample_data invocations that interleave at their awaits on a
\* database with empty tables each return "Sample data inserted
\* successfully!" (a database call that fails below SQL aside), and once all
\* have returned so, users holds exactly 2 rows with distinct emails and
\* products exactly 2 rows per invocation, whatever the interleaving.
C27_InterleavedSamples ==
    /\ \A p \in SampleCalls :
          pc[p] = "done" =>
              \/ result[p] = "Sample data inserted successfully!"
              \/ \E f \in DbFaults : result[p] = "Error inserting sample data: " \o f
    /\ (\A p \in SampleCalls :
           pc[p] = "done" /\ result[p] = "Sample data inserted successfully!")
         => /\ SampleCalls = {} => RowsOf(db, "users") = <<>>
            /\ SampleCalls # {} =>
                  /\ Len(RowsOf(db, "users")) = 2
                  /\ UserEmails(db)[1] # UserEmails(db)[2]
            /\ Len(RowsOf(db, "products")) = 2 * Cardinality(SampleCalls)

C27_Witness ==
    /\ SampleCalls = Procs
    /\ \A p \in Procs :
          pc[p] = "done" /\ result[p] = "Sample data inserted successfully!"
    /\ Len(RowsOf(before[2], "users")) = 1
    /\ Len(RowsOf(before[2], "products")) = 0
    /\ Len(RowsOf(db, "users")) = 2
    /\ Len(RowsOf(db, "products")) = 4

\* the row_count a get_database_schema call in slot p has put into schema_info
\* for table t
Reported(p, t) == DictGet(DictGet(loc[p].info, t), "row_count").i

\* counts u of users, s of sqlite_sequence and c of products that one database
\* state can show when only insert_sample_data writes: products come after
\* both users, and sqlite_sequence holds one row per table that has had a row
OneState(u, s, c) ==
    /\ c > 0 => u = 2
    /\ s = (IF u > 0 THEN 1 ELSE 0) + (IF c > 0 THEN 1 ELSE 0)

\* every state of the database is of that kind
StatesAreOneState ==
    OneState(Len(RowsOf(db, "users")), Len(RowsOf(db, "sqlite_sequence")),
             Len(RowsOf(db, "products")))

\* C28: get_database_schema returns a consistent snapshot even when
\* insert_sample_data runs beside it: the row_counts of one returned schema are
\* those of a single state the database was in during the call, between the
\* state at dispatch and the state at return (never users with 0 rows together
\* with products with 2 rows).
C28_SchemaSnapshot ==
    \A p \in Procs :
        /\ tool[p] = "get_database_schema"
        /\ pc[p] = "done"
        /\ \A i \in 1..Len(executed[p]) : executed[p][i].ok
        => /\ OneState(Reported(p, "users"), Reported(p, "sqlite_sequence"),
                       Reported(p, "products"))
           /\ \A t \in {"users", "sqlite_sequence", "products", "orders"} :
                 /\ Len(RowsOf(before[p], t)) <= Reported(p, t)
                 /\ Reported(p, t) <= Len(RowsOf(db, t))

\* a returned schema that no state had: users counted before the other
\* invocation wrote, products after
C28_TornSchema ==
    \E p \in Procs :
        /\ tool[p] = "get_database_schema"
        /\ pc[p] = "done"
        /\ \A i \in 1..Len(executed[p]) : executed[p][i].ok
        /\ Reported(p, "users") = 0
        /\ Reported(p, "products") = 2
        /\ contains(result[p], "\"row_count\": 2")

=============================================================================
